---- MODULE Spec2Model ----
(***************************************************************************)
(* mongo-tools: the streaming transfer engine of MongoClient               *)
(* (src/src/utils/mongo-client.ts): cloneDb, cloneDbToClient, exportDb and *)
(* importDb, each modelled as one call that runs from its first statement  *)
(* to its return or rejection, one action per awaited step.                *)
(*                                                                         *)
(* Documents are identified by their place in the source: document k is    *)
(* the k-th item the source cursor (or the k-th line the record file)      *)
(* delivers.  Collection and file names are sequences of dot-separated     *)
(* segments: users.indexes.json is <<"users", "indexes", "json">>.         *)
(*                                                                         *)
(* The specifications:                                                     *)
(*   Spec       one call of a transfer method, from call to return;        *)
(*   Termination  Spec, every awaited operation eventually answering;      *)
(*   Lifecycle  a Connection from its construction: connect() and          *)
(*              disconnect() in any order, then a data operation;          *)
(*   RoundTrip  exportDb into a directory, then importDb of that directory *)
(*              into an empty database;                                    *)
(*   TwoCalls   two calls on two Connections, interleaved at their awaits; *)
(*   Clusters   the cluster list of cluster-manager, from an empty store,  *)
(*              under any addCluster, removeCluster and renameCluster;     *)
(*   Operations one run of cloneOperation, uploadOperation or              *)
(*              dropOperation: the prompts the user answers and the calls  *)
(*              the operation makes on its MongoClients.                   *)
(***************************************************************************)
EXTENDS Integers, Sequences, FiniteSets, TLC

(* ------------------------------ constants ------------------------------ *)

BATCH_SIZE == 500

(* ------------------------------- bounds -------------------------------- *)

\* the source enumerates at most MaxCols collections
MaxCols == 2
\* a database holds at most MaxBatches full batches and one document more
MaxBatches == 2

MaxDocs == MaxBatches * BATCH_SIZE + 1

\* a Connection is asked to connect at most MaxHandles times
MaxHandles == 2

AllNames == << <<"a">>, <<"b">>, <<"c">>, <<"d">> >>

ColName(k) == AllNames[k]

Names == {ColName(k) : k \in 1..MaxCols}

Ops == {"cloneDb", "cloneDbToClient", "exportDb", "importDb"}

\* every method of MongoClient that goes through the db getter
DataOps == Ops \cup {"listDatabases", "listCollections", "getDbStats", "dropDb"}

SYSTEM_DBS == {"admin", "local", "config"}

\* an entry of result.databases
Database(name, size) == [name |-> name, sizeOnDisk |-> size, empty |-> size = 0]

\* what admin().listDatabases() of the cluster can report
ClusterDatabases ==
    { <<>>,
      <<Database("app", 8192)>>,
      <<Database("admin", 40960), Database("config", 12288), Database("local", 4096)>>,
      <<Database("shop", 0), Database("admin", 40960), Database("app", 8192),
        Database("config", 12288), Database("local", 4096)>> }

(* --------------------------- index descriptors -------------------------- *)

IdIndex == [v |-> "2", name |-> "_id_", key |-> "_id:1"]

EmailIndex ==
    [v |-> "2", ns |-> "src.users", name |-> "email_1", key |-> "email:1",
     unique |-> "true"]

NameIndex == [v |-> "2", name |-> "name_1", key |-> "name:1"]

CompoundIndex == [name |-> "a_1_b_-1", key |-> "a:1,b:-1", sparse |-> "true"]

\* idx.name !== "_id_"
NotIdIndex(idx) == idx.name # "_id_"

\* Rest with a slip: only v is taken out of the descriptor
RestKeepsNs(idx) == [f \in (DOMAIN idx) \ {"v"} |-> idx[f]]

\* ({ v: _v, ns: _ns, ...rest }) => rest
Rest(idx) == [f \in (DOMAIN idx) \ {"v", "ns"} |-> idx[f]]

\* idx.name === "_id_"
IsIdIndex(idx) == idx.name = "_id_"

\* FilterIndexes with a slip: === for !==, only the implicit index is kept
FilterIndexesInverted(raw) == SelectSeq(raw, IsIdIndex)

\* FilterIndexes with a slip: the filter is missing
FilterIndexesKeepsAll(raw) == raw

\* indexes.filter(...): the descriptors other than the implicit one
FilterIndexes(raw) == SelectSeq(raw, NotIdIndex)

\* indexes.filter(...).map(...): userIndexes of cloneDb, cloneDbToClient, importDb
UserIndexes(raw) ==
    LET kept == FilterIndexes(raw)
    IN  [k \in 1..Len(kept) |-> Rest(kept[k])]

(* ------------------------------ file codec ------------------------------ *)

\* EJSON.stringify(doc) + "\n": one line of text holding the document
EJSONStringify(doc) == [kind |-> "ejson", doc |-> doc]

BlankLine == [kind |-> "blank", doc |-> 0]

GarbageLine == [kind |-> "garbage", doc |-> 0]

\* a line of spaces and tabs
WhitespaceLine == [kind |-> "spaces", doc |-> 0]

\* Trim with a slip: the line is taken as it is
TrimNothing(line) == line

\* line.trim(): a whitespace-only line becomes the empty string
Trim(line) == IF line.kind = "spaces" THEN BlankLine ELSE line

IsEmpty(trimmed) == trimmed.kind = "blank"

\* EJSON.parse throws on text that is not (E)JSON
Parsable(trimmed) == trimmed.kind = "ejson"

EJSONParse(trimmed) == trimmed.doc

\* JSON.stringify(userIndexes, null, 2)
JSONStringify(list) == [valid |-> TRUE, value |-> list]

MalformedJSON == [valid |-> FALSE, value |-> <<>>]

JSONParse(text) == text.value

(* ------------------------------- sources -------------------------------- *)

\* A source collection is n items and its index descriptors.  For a record
\* file the lines in blanks are empty (the first line) or hold only spaces
\* (the others), the lines in bad are not EJSON, and sidecar is the text of
\* its .indexes.json, if the directory has one.
Live(n, indexes) == [n |-> n, blanks |-> {}, bad |-> {}, indexes |-> indexes]

File(n, blanks, bad, sidecar) ==
    [n |-> n, blanks |-> blanks, bad |-> bad, sidecar |-> sidecar]

\* the collections a live source database is made of
LiveCollections ==
    { Live(0, <<IdIndex>>),
      Live(1, <<IdIndex, EmailIndex>>),
      Live(BATCH_SIZE, <<IdIndex, CompoundIndex, NameIndex>>),
      Live(MaxDocs, <<IdIndex, EmailIndex>>) }

\* the record files an import directory is made of
RecordFiles ==
    { File(0, {}, {}, JSONStringify(<<IdIndex>>)),
      File(1, {}, {}, JSONStringify(<<>>)),
      File(1, {}, {1}, JSONStringify(<<>>)),
      File(3, {1, 3}, {}, MalformedJSON),
      File(BATCH_SIZE + 1, {}, {BATCH_SIZE + 1}, JSONStringify(<<>>)),
      File(BATCH_SIZE + 2, {1, BATCH_SIZE + 2}, {}, JSONStringify(<<IdIndex, EmailIndex>>)),
      File(MaxDocs, {}, {}, JSONStringify(<<NameIndex, IdIndex, CompoundIndex>>)) }

\* the collections among S that fit a database with room for budget items
Fitting(S, budget) == {c \in S : c.n <= budget}

LineAt(shape, k) ==
    IF "lines" \in DOMAIN shape THEN shape.lines[k]
    ELSE IF k \in shape.blanks THEN (IF k = 1 THEN BlankLine ELSE WhitespaceLine)
    ELSE IF k \in shape.bad THEN GarbageLine
    ELSE EJSONStringify(k)

DocAt(shape, k) == k

\* file names of a collection
JsonlFile(col) == col \o <<"jsonl">>

IndexFile(col) == col \o <<"indexes", "json">>

\* EndsWithJsonl with a slip: .json is taken too
EndsWithJsonlOrJson(f) == Len(f) >= 2 /\ f[Len(f)] \in {"jsonl", "json"}

\* f.endsWith(".jsonl")
EndsWithJsonl(f) == Len(f) >= 2 /\ f[Len(f)] = "jsonl"

\* file.replace(/\.jsonl$/, "")
StripJsonl(f) == IF EndsWithJsonl(f) THEN SubSeq(f, 1, Len(f) - 1) ELSE f

RECURSIVE ListingOf(_, _, _)
\* readdirSync(inDir) of a directory with record files for the first n names,
\* sidecars for the names numbered in sc, and a stray file when asked
ListingOf(n, sc, stray) ==
    IF n = 0
    THEN IF stray THEN << <<"README", "md">> >> ELSE <<>>
    ELSE LET rest == ListingOf(n - 1, sc, FALSE)
             mine == IF n \in sc
                     THEN <<IndexFile(ColName(n)), JsonlFile(ColName(n))>>
                     ELSE <<JsonlFile(ColName(n))>>
             tail == IF stray THEN << <<"README", "md">> >> ELSE <<>>
         IN  rest \o mine \o tail

\* the directories importDb is run on: every collection with its sidecar and
\* a stray file, or only the collections after the first with a sidecar
DirListings ==
    {ListingOf(n, 1..n, TRUE) : n \in 0..MaxCols}
    \cup {ListingOf(n, 2..n, FALSE) : n \in 0..MaxCols}

(* ------------------------------ variables ------------------------------- *)

VARIABLES
    op,              \* the method called
    hasCallback,     \* whether onCollection was passed
    sink0,           \* what the sink held when the call started
    outDir,          \* exportDb: the directory it is given
    flushing,        \* exportDb: when the file system completes the stream's writes
    pc,              \* where the call is
    failure,         \* what the call rejected with, if it did
    collections,     \* the enumerated collections (importDb: the files)
    i,               \* the loop index, 0-based as in the code
    batch,           \* let batch: Document[]
    totalDocuments,  \* let totalDocuments
    userIndexes,     \* const userIndexes
    result,          \* what the call returned
    src,             \* per opened collection, what its cursor or file holds
    rawIndexes,      \* per collection, the descriptors read from the source
    reads,           \* per collection, how many items the source delivered
    dirExists,       \* importDb: existsSync(inDir)
    entries,         \* importDb: readdirSync(inDir)
    sink,            \* per collection, the sink's documents (exportDb: lines)
    insertBatches,   \* per collection, the length of every insertMany batch
    createdIndexes,  \* per collection, the argument of every createIndexes
    indexFiles,      \* exportDb: per collection, every sidecar text written
    streamEnded,     \* exportDb: the collections whose stream.end() returned
    calls,           \* the onCollection invocations
    outDirMade,      \* exportDb: mkdirSync(outDir) has run
    buffered,        \* exportDb: the lines the stream holds that are not in the file yet
    served,          \* listDatabases: the databases the server reported
    inFlight,        \* listCollections: the countDocuments() not answered yet
    counts,          \* listCollections: the answers of the countDocuments()
    client,          \* this.client: Null, or the handle it refers to
    handles,         \* the state of every NativeClient this Connection built
    pending,         \* the connect() or disconnect() that has not returned yet
    outcome,         \* how the last connect() or disconnect() ended
    targetConnected, \* cloneDbToClient: targetClient holds a handle
    disk,            \* the directory an earlier exportDb left, when one ran
    other,           \* a second call, suspended at an await: all that is its own
    running,         \* which of the two calls the variables above are those of
    stored,          \* cluster-manager: the list CLUSTERS_FILE holds
    storeError,      \* cluster-manager: what the last operation on the list threw
    operation,       \* the menu operation that runs: clone, upload or drop
    at,              \* the operation's position: the await it stands at, or how it ended
    dbs,             \* the operation's dbs (clone: targetDbs once a target cluster is chosen)
    sourceDb,        \* clone: sourceDb; drop: dbName
    targetDb,        \* clone and upload: targetDb
    targetStats,     \* clone and upload: targetStats is not null
    issued,          \* every call the operation made on a MongoClient, and how it ended
    answers          \* every prompt the user answered, and the answer

\* the Connection the call is made on
conn == <<client, handles, pending, outcome, targetConnected>>

\* the call, its receiver and what it was given
call == <<op, hasCallback, sink0, outDir, flushing, conn, disk>>

locals == <<collections, i, batch, totalDocuments, userIndexes, result>>

source == <<src, rawIndexes, reads, dirExists, entries>>

sinks == <<sink, insertBatches, createdIndexes, indexFiles, streamEnded>>

\* what listDatabases, listCollections and getDbStats keep while they run
query == <<served, inFlight, counts>>

\* the call that is not running
peer == <<other, running>>

\* the cluster list on disk
store == <<stored, storeError>>

\* a menu operation and what it holds
ui == <<operation, at, dbs, sourceDb, targetDb, targetStats, issued, answers>>

app == <<store, ui>>

vars == <<call, pc, failure, locals, source, sinks, calls, outDirMade, buffered, query, peer, app>>

NoResult == [kind |-> "none"]

\* the error the call rejects with is the error the failing step threw: no
\* method catches, wraps or rethrows
Thrown(cause) == [error |-> cause]

NoFailure == [error |-> "none"]

\* private client: NativeClient | null = null
Null == 0

\* throw new Error("Not connected to a cluster.")
NotConnected == "Not connected to a cluster."

\* throw new Error(`Directory not found: ${inDir}`)
DirectoryNotFound == "Directory not found"

\* the directories exportDb is given
OutDirs == {"dump", "backup/dump"}

\* stream.write() hands a line to the file system and returns at once; the file
\* system completes the write later, at a moment the loop does not wait for.
\* The two extremes: every write is complete before the next document is read,
\* and no write is complete before stream.end() is awaited (a cursor that
\* delivers from its buffer yields to callbacks of the file system only there)
Flushings == {"prompt", "late"}

\* no earlier exportDb wrote the directory
NoDisk == [known |-> FALSE]

\* no second call is made
NoOther == [pc |-> "none"]

\* an empty sink, and one that already holds a document in every collection
EmptySink == [c \in Names |-> <<>>]

LoadedSink(o) ==
    [c \in Names |-> IF o = "exportDb" THEN <<EJSONStringify(0)>> ELSE <<0>>]

\* no menu operation runs and the cluster list is empty
NoOperation ==
    /\ stored = <<>>
    /\ storeError = "none"
    /\ operation = "none"
    /\ at = <<"none">>
    /\ dbs = <<>>
    /\ sourceDb = ""
    /\ targetDb = ""
    /\ targetStats = FALSE
    /\ issued = <<>>
    /\ answers = <<>>

\* nothing of a call has happened yet
NothingDone ==
    /\ pc = "start"
    /\ failure = NoFailure
    /\ collections = <<>>
    /\ i = 0
    /\ batch = <<>>
    /\ totalDocuments = 0
    /\ userIndexes = <<>>
    /\ result = NoResult
    /\ src = <<>>
    /\ rawIndexes = <<>>
    /\ reads = [c \in Names |-> 0]
    /\ entries = <<>>
    /\ sink = sink0
    /\ insertBatches = [c \in Names |-> <<>>]
    /\ createdIndexes = [c \in Names |-> <<>>]
    /\ indexFiles = [c \in Names |-> <<>>]
    /\ streamEnded = {}
    /\ calls = <<>>
    /\ outDirMade = FALSE
    /\ buffered = <<>>
    /\ served = <<>>
    /\ inFlight = {}
    /\ counts = <<>>

Init ==
    /\ op \in Ops
    /\ hasCallback \in BOOLEAN
    /\ sink0 \in {EmptySink, LoadedSink(op)}
    /\ outDir \in (IF op = "exportDb" THEN OutDirs ELSE {"."})
    /\ flushing \in (IF op = "exportDb" /\ outDir = "dump" THEN Flushings ELSE {"prompt"})
    /\ pc = "start"
    /\ failure = NoFailure
    /\ collections = <<>>
    /\ i = 0
    /\ batch = <<>>
    /\ totalDocuments = 0
    /\ userIndexes = <<>>
    /\ result = NoResult
    /\ src = <<>>
    /\ rawIndexes = <<>>
    /\ reads = [c \in Names |-> 0]
    /\ dirExists \in (IF op = "importDb" THEN BOOLEAN ELSE {TRUE})
    /\ entries = <<>>
    /\ sink = sink0
    /\ insertBatches = [c \in Names |-> <<>>]
    /\ createdIndexes = [c \in Names |-> <<>>]
    /\ indexFiles = [c \in Names |-> <<>>]
    /\ streamEnded = {}
    /\ calls = <<>>
    /\ outDirMade = FALSE
    /\ buffered = <<>>
    /\ served = <<>>
    /\ inFlight = {}
    /\ counts = <<>>
    /\ client \in {Null, 1}
    /\ handles = IF client = Null THEN <<>> ELSE <<"open">>
    /\ pending = "none"
    /\ outcome = "none"
    /\ targetConnected \in (IF op = "cloneDbToClient" THEN BOOLEAN ELSE {TRUE})
    /\ disk = NoDisk
    /\ other = NoOther
    /\ running = 1
    /\ NoOperation

(* ------------------------------- helpers -------------------------------- *)

\* the name of the k-th enumerated collection (k from 1)
Col(k) == IF op = "importDb" THEN StripJsonl(collections[k]) ELSE collections[k]

\* const col = collections[i]
Cur == Col(i + 1)

RECURSIVE SumN(_, _)
SumN(f, S) ==
    IF S = {} THEN 0
    ELSE LET c == CHOOSE x \in S : TRUE IN f[c].n + SumN(f, S \ {c})

\* how many more items the database (or directory) can hold
Budget == MaxDocs - SumN(src, DOMAIN src)

\* the step throws, or its promise rejects: nothing catches it, the call rejects
Reject(step) ==
    /\ pc' = "rejected"
    /\ failure' = Thrown(step)
    /\ UNCHANGED <<locals, source, sinks, calls>>

\* OnCollection with a slip: the loop index is passed as it is, from 0
OnCollectionZeroBased(name, idx, total) ==
    calls' = IF hasCallback THEN Append(calls, <<name, idx - 1, total>>) ELSE calls

\* onCollection?.(name, i + 1, total)
OnCollection(name, idx, total) ==
    calls' = IF hasCallback THEN Append(calls, <<name, idx, total>>) ELSE calls

\* await collection(name).insertMany(docs), resolved
InsertMany(name, docs) ==
    /\ sink' = [sink EXCEPT ![name] = @ \o docs]
    /\ insertBatches' = [insertBatches EXCEPT ![name] = Append(@, Len(docs))]

\* await collection(name).createIndexes(specs), resolved
CreateIndexes(name, specs) ==
    createdIndexes' = [createdIndexes EXCEPT ![name] = Append(@, specs)]

\* the caller, who has awaited the connect() or disconnect() it made last,
\* calls method o
Called(o) == op = o /\ pc = "start" /\ pending = "none"

\* private get db(): the handle, or a throw when there is none
Db(then) == IF client = Null THEN Reject(NotConnected) ELSE then

\* await source.listCollections().toArray()
ListCollections ==
    \/ /\ \E n \in 0..MaxCols : collections' = [k \in 1..n |-> ColName(k)]
       /\ pc' = "loop"
       /\ UNCHANGED <<failure, i, batch, totalDocuments, userIndexes, result>>
       /\ UNCHANGED <<source, sinks, calls>>
    \/ Reject("listCollections")

\* the head of the for loop over a live source: the callback, then find({})
LiveLoop(ret) ==
    IF i < Len(collections)
    THEN /\ OnCollection(Cur, i + 1, Len(collections))
         /\ \E found \in Fitting(LiveCollections, Budget) : src' = src @@ (Cur :> found)
         /\ batch' = <<>>
         /\ pc' = "read"
         /\ UNCHANGED <<failure, collections, i, totalDocuments, userIndexes, result>>
         /\ UNCHANGED <<rawIndexes, reads, dirExists, entries, sinks>>
    ELSE /\ result' = ret
         /\ pc' = "done"
         /\ UNCHANGED <<failure, collections, i, batch, totalDocuments, userIndexes>>
         /\ UNCHANGED <<source, sinks, calls>>

\* LiveRead with a slip: > for >=, the batch is flushed one document late
LiveReadOffByOne ==
    \/ IF reads[Cur] < src[Cur].n
       THEN LET pushed == Append(batch, DocAt(src[Cur], reads[Cur] + 1))
            IN  /\ reads' = [reads EXCEPT ![Cur] = @ + 1]
                /\ batch' = pushed
                /\ pc' = IF Len(pushed) > BATCH_SIZE THEN "flush" ELSE "read"
                /\ UNCHANGED <<failure, collections, i, totalDocuments, userIndexes, result>>
                /\ UNCHANGED <<src, rawIndexes, dirExists, entries, sinks, calls>>
       ELSE /\ pc' = IF Len(batch) > 0 THEN "finalFlush" ELSE "indexes"
            /\ UNCHANGED <<failure, locals, source, sinks, calls>>
    \/ Reject("next")

\* LiveRead with a slip: the flush after the loop is missing
LiveReadNoFinalFlush ==
    \/ IF reads[Cur] < src[Cur].n
       THEN LET pushed == Append(batch, DocAt(src[Cur], reads[Cur] + 1))
            IN  /\ reads' = [reads EXCEPT ![Cur] = @ + 1]
                /\ batch' = pushed
                /\ pc' = IF Len(pushed) >= BATCH_SIZE THEN "flush" ELSE "read"
                /\ UNCHANGED <<failure, collections, i, totalDocuments, userIndexes, result>>
                /\ UNCHANGED <<src, rawIndexes, dirExists, entries, sinks, calls>>
       ELSE /\ pc' = "indexes"
            /\ UNCHANGED <<failure, locals, source, sinks, calls>>
    \/ Reject("next")

\* LiveRead with a slip: if (batch.length > 0) is missing before the last flush
LiveReadAlwaysFlushes ==
    \/ IF reads[Cur] < src[Cur].n
       THEN LET pushed == Append(batch, DocAt(src[Cur], reads[Cur] + 1))
            IN  /\ reads' = [reads EXCEPT ![Cur] = @ + 1]
                /\ batch' = pushed
                /\ pc' = IF Len(pushed) >= BATCH_SIZE THEN "flush" ELSE "read"
                /\ UNCHANGED <<failure, collections, i, totalDocuments, userIndexes, result>>
                /\ UNCHANGED <<src, rawIndexes, dirExists, entries, sinks, calls>>
       ELSE /\ pc' = "finalFlush"
            /\ UNCHANGED <<failure, locals, source, sinks, calls>>
    \/ Reject("next")

\* for await (const doc of cursor) { batch.push(doc); if (batch.length >= BATCH_SIZE) ...
LiveRead ==
    \/ IF reads[Cur] < src[Cur].n
       THEN LET pushed == Append(batch, DocAt(src[Cur], reads[Cur] + 1))
            IN  /\ reads' = [reads EXCEPT ![Cur] = @ + 1]
                /\ batch' = pushed
                /\ pc' = IF Len(pushed) >= BATCH_SIZE THEN "flush" ELSE "read"
                /\ UNCHANGED <<failure, collections, i, totalDocuments, userIndexes, result>>
                /\ UNCHANGED <<src, rawIndexes, dirExists, entries, sinks, calls>>
       ELSE /\ pc' = IF Len(batch) > 0 THEN "finalFlush" ELSE "indexes"
            /\ UNCHANGED <<failure, locals, source, sinks, calls>>
    \/ Reject("next")

\* Flush with a slip: batch = [] is missing
FlushKeepsBatch(counted) ==
    \/ /\ InsertMany(Cur, batch)
       /\ totalDocuments' = IF counted THEN totalDocuments + Len(batch) ELSE totalDocuments
       /\ pc' = "read"
       /\ UNCHANGED <<failure, collections, i, batch, userIndexes, result>>
       /\ UNCHANGED <<source, createdIndexes, indexFiles, streamEnded, calls>>
    \/ Reject("insertMany")

\* Flush inside a try/catch that drops the failed batch and goes on reading
FlushSkipsFailedBatch(counted) ==
    \/ /\ InsertMany(Cur, batch)
       /\ totalDocuments' = IF counted THEN totalDocuments + Len(batch) ELSE totalDocuments
       /\ batch' = <<>>
       /\ pc' = "read"
       /\ UNCHANGED <<failure, collections, i, userIndexes, result>>
       /\ UNCHANGED <<source, createdIndexes, indexFiles, streamEnded, calls>>
    \/ /\ failure' = Thrown("insertMany")
       /\ batch' = <<>>
       /\ pc' = "read"
       /\ UNCHANGED <<collections, i, totalDocuments, userIndexes, result>>
       /\ UNCHANGED <<source, sinks, calls>>

\* await insertMany(batch); [totalDocuments += batch.length;] batch = []
Flush(counted) ==
    \/ /\ InsertMany(Cur, batch)
       /\ totalDocuments' = IF counted THEN totalDocuments + Len(batch) ELSE totalDocuments
       /\ batch' = <<>>
       /\ pc' = "read"
       /\ UNCHANGED <<failure, collections, i, userIndexes, result>>
       /\ UNCHANGED <<source, createdIndexes, indexFiles, streamEnded, calls>>
    \/ Reject("insertMany")

\* FinalFlush with a slip: the documents of the last batch are not counted
FinalFlushUncounted(counted) ==
    \/ /\ InsertMany(Cur, batch)
       /\ pc' = "indexes"
       /\ UNCHANGED <<failure, collections, i, batch, totalDocuments, userIndexes, result>>
       /\ UNCHANGED <<source, createdIndexes, indexFiles, streamEnded, calls>>
    \/ Reject("insertMany")

\* FinalFlush with an insertMany that is not atomic: the one that fails has
\* written the first document of its batch
FinalFlushWritesSome(counted) ==
    \/ /\ InsertMany(Cur, batch)
       /\ totalDocuments' = IF counted THEN totalDocuments + Len(batch) ELSE totalDocuments
       /\ pc' = "indexes"
       /\ UNCHANGED <<failure, collections, i, batch, userIndexes, result>>
       /\ UNCHANGED <<source, createdIndexes, indexFiles, streamEnded, calls>>
    \/ /\ sink' = [sink EXCEPT ![Cur] = Append(@, batch[1])]
       /\ pc' = "rejected"
       /\ failure' = Thrown("insertMany")
       /\ UNCHANGED <<locals, source, calls>>
       /\ UNCHANGED <<insertBatches, createdIndexes, indexFiles, streamEnded>>

\* if (batch.length > 0) { await insertMany(batch); [totalDocuments += batch.length;] }
FinalFlush(counted) ==
    \/ /\ InsertMany(Cur, batch)
       /\ totalDocuments' = IF counted THEN totalDocuments + Len(batch) ELSE totalDocuments
       /\ pc' = "indexes"
       /\ UNCHANGED <<failure, collections, i, batch, userIndexes, result>>
       /\ UNCHANGED <<source, createdIndexes, indexFiles, streamEnded, calls>>
    \/ Reject("insertMany")

\* LiveIndexes with a slip: if (userIndexes.length > 0) is missing
LiveIndexesAlwaysCreates ==
    \/ LET raw == src[Cur].indexes
           specs == UserIndexes(raw)
       IN  /\ rawIndexes' = rawIndexes @@ (Cur :> raw)
           /\ userIndexes' = specs
           /\ pc' = "createIndexes" /\ i' = i
           /\ UNCHANGED <<failure, collections, batch, totalDocuments, result>>
           /\ UNCHANGED <<src, reads, dirExists, entries, sinks, calls>>
    \/ Reject("indexes")

\* await source.collection(col.name).indexes(), then filter and map
LiveIndexes ==
    \/ LET raw == src[Cur].indexes
           specs == UserIndexes(raw)
       IN  /\ rawIndexes' = rawIndexes @@ (Cur :> raw)
           /\ userIndexes' = specs
           /\ IF Len(specs) > 0
              THEN pc' = "createIndexes" /\ i' = i
              ELSE pc' = "loop" /\ i' = i + 1
           /\ UNCHANGED <<failure, collections, batch, totalDocuments, result>>
           /\ UNCHANGED <<src, reads, dirExists, entries, sinks, calls>>
    \/ Reject("indexes")

\* CreateUserIndexes that drops the half-built target collection when it fails
CreateUserIndexesRollsBack ==
    \/ /\ CreateIndexes(Cur, userIndexes)
       /\ i' = i + 1
       /\ pc' = "loop"
       /\ UNCHANGED <<failure, collections, batch, totalDocuments, userIndexes, result>>
       /\ UNCHANGED <<source, sink, insertBatches, indexFiles, streamEnded, calls>>
    \/ /\ pc' = "rejected"
       /\ failure' = Thrown("createIndexes")
       /\ sink' = [sink EXCEPT ![Cur] = <<>>]
       /\ UNCHANGED <<locals, source, insertBatches, createdIndexes, indexFiles>>
       /\ UNCHANGED <<streamEnded, calls>>

\* CreateUserIndexes with a slip: await is missing, the loop goes on while the
\* indexes are still to be created
CreateUserIndexesNotAwaited ==
    /\ i' = i + 1
    /\ pc' = "loop"
    /\ UNCHANGED <<failure, collections, batch, totalDocuments, userIndexes, result>>
    /\ UNCHANGED <<source, sinks, calls>>

\* await target.collection(col.name).createIndexes(userIndexes), end of the loop body
CreateUserIndexes ==
    \/ /\ CreateIndexes(Cur, userIndexes)
       /\ i' = i + 1
       /\ pc' = "loop"
       /\ UNCHANGED <<failure, collections, batch, totalDocuments, userIndexes, result>>
       /\ UNCHANGED <<source, sink, insertBatches, indexFiles, streamEnded, calls>>
    \/ Reject("createIndexes")

(* ------------------------------- cloneDb -------------------------------- *)

\* this.db.db(sourceDb); this.db.db(targetDb); await source.listCollections().toArray()
CloneDbStart ==
    Called("cloneDb") /\ Db(ListCollections) /\ UNCHANGED <<call, peer, app, outDirMade, buffered, query>>

\* CloneDbLoop as cloneDbToClient has it: the counts are returned
CloneDbLoopReturnsCounts ==
    /\ op = "cloneDb" /\ pc = "loop"
    /\ LiveLoop([kind |-> "value", collections |-> Len(collections),
                 documents |-> totalDocuments])
    /\ UNCHANGED <<call, peer, app, outDirMade, buffered, query>>

CloneDbLoop == op = "cloneDb" /\ pc = "loop" /\ LiveLoop([kind |-> "void"]) /\ UNCHANGED <<call, peer, app, outDirMade, buffered, query>>

CloneDbRead == op = "cloneDb" /\ pc = "read" /\ LiveRead /\ UNCHANGED <<call, peer, app, outDirMade, buffered, query>>

CloneDbFlush == op = "cloneDb" /\ pc = "flush" /\ Flush(FALSE) /\ UNCHANGED <<call, peer, app, outDirMade, buffered, query>>

CloneDbFinalFlush == op = "cloneDb" /\ pc = "finalFlush" /\ FinalFlush(FALSE) /\ UNCHANGED <<call, peer, app, outDirMade, buffered, query>>

CloneDbIndexes == op = "cloneDb" /\ pc = "indexes" /\ LiveIndexes /\ UNCHANGED <<call, peer, app, outDirMade, buffered, query>>

CloneDbCreateIndexes == op = "cloneDb" /\ pc = "createIndexes" /\ CreateUserIndexes /\ UNCHANGED <<call, peer, app, outDirMade, buffered, query>>

(* ---------------------------- cloneDbToClient --------------------------- *)

\* ImportResult with a slip: every entry of the directory is counted
ImportResultCountsEntries ==
    [kind |-> "value", collections |-> Len(entries), documents |-> totalDocuments]

\* return { collections: collections.length, documents: totalDocuments }
ImportResult == [kind |-> "value", collections |-> Len(collections), documents |-> totalDocuments]

\* this.db.db(sourceDb); targetClient.db.db(targetDb); await source.listCollections().toArray()
CloneDbToClientStart ==
    /\ Called("cloneDbToClient")
    /\ Db(IF targetConnected THEN ListCollections ELSE Reject(NotConnected))
    /\ UNCHANGED <<call, peer, app, outDirMade, buffered, query>>

CloneDbToClientLoop == op = "cloneDbToClient" /\ pc = "loop" /\ LiveLoop(ImportResult) /\ UNCHANGED <<call, peer, app, outDirMade, buffered, query>>

CloneDbToClientRead == op = "cloneDbToClient" /\ pc = "read" /\ LiveRead /\ UNCHANGED <<call, peer, app, outDirMade, buffered, query>>

CloneDbToClientFlush == op = "cloneDbToClient" /\ pc = "flush" /\ Flush(TRUE) /\ UNCHANGED <<call, peer, app, outDirMade, buffered, query>>

CloneDbToClientFinalFlush == op = "cloneDbToClient" /\ pc = "finalFlush" /\ FinalFlush(TRUE) /\ UNCHANGED <<call, peer, app, outDirMade, buffered, query>>

CloneDbToClientIndexes == op = "cloneDbToClient" /\ pc = "indexes" /\ LiveIndexes /\ UNCHANGED <<call, peer, app, outDirMade, buffered, query>>

CloneDbToClientCreateIndexes ==
    op = "cloneDbToClient" /\ pc = "createIndexes" /\ CreateUserIndexes /\ UNCHANGED <<call, peer, app, outDirMade, buffered, query>>

(* ------------------------------- exportDb ------------------------------- *)

ExportResult ==
    [kind |-> "value", collections |-> Len(collections), documents |-> totalDocuments,
     path |-> outDir]

\* mkdirSync(outDir, { recursive: true })
ExportDbMkdir ==
    /\ Called("exportDb")
    /\ \/ /\ outDirMade' = TRUE
          /\ pc' = "list"
          /\ UNCHANGED <<failure, locals, source, sinks, calls>>
       \/ Reject("mkdirSync") /\ UNCHANGED outDirMade
    /\ UNCHANGED <<call, peer, app, buffered, query>>

\* this.db.db(dbName); await db.listCollections().toArray()
ExportDbStart ==
    op = "exportDb" /\ pc = "list" /\ Db(ListCollections) /\ UNCHANGED <<call, peer, app, outDirMade, buffered, query>>

\* ExportDbLoop with a slip: the stream is opened for appending
ExportDbLoopAppends ==
    /\ op = "exportDb" /\ pc = "loop"
    /\ IF i < Len(collections)
       THEN /\ OnCollection(Cur, i + 1, Len(collections))
            /\ \E found \in Fitting(LiveCollections, Budget) : src' = src @@ (Cur :> found)
            /\ pc' = "read"
            /\ UNCHANGED <<failure, locals, rawIndexes, reads, dirExists, entries, sinks>>
       ELSE /\ result' = ExportResult
            /\ pc' = "done"
            /\ UNCHANGED <<failure, collections, i, batch, totalDocuments, userIndexes>>
            /\ UNCHANGED <<source, sinks, calls>>
    /\ UNCHANGED <<call, peer, app, outDirMade, buffered, query>>

\* the head of the loop: the callback, createWriteStream (which truncates), find({})
ExportDbLoop ==
    /\ op = "exportDb" /\ pc = "loop"
    /\ IF i < Len(collections)
       THEN /\ OnCollection(Cur, i + 1, Len(collections))
            /\ sink' = [sink EXCEPT ![Cur] = <<>>]
            /\ \E found \in Fitting(LiveCollections, Budget) : src' = src @@ (Cur :> found)
            /\ pc' = "read"
            /\ UNCHANGED <<failure, locals, rawIndexes, reads, dirExists, entries>>
            /\ UNCHANGED <<insertBatches, createdIndexes, indexFiles, streamEnded>>
       ELSE /\ result' = ExportResult
            /\ pc' = "done"
            /\ UNCHANGED <<failure, collections, i, batch, totalDocuments, userIndexes>>
            /\ UNCHANGED <<source, sinks, calls>>
    /\ UNCHANGED <<call, peer, app, outDirMade, buffered, query>>

\* stream.write(line): the return value, which asks the writer to wait for
\* "drain", is dropped; the line is in the file at once or stays in the stream
StreamWrite(line) ==
    IF flushing = "prompt"
    THEN /\ sink' = [sink EXCEPT ![Cur] = Append(@, line)]
         /\ UNCHANGED buffered
    ELSE /\ buffered' = Append(buffered, line)
         /\ UNCHANGED sink

\* ExportDbRead with a slip: the stream is not ended before the indexes are read
ExportDbReadNoEnd ==
    /\ op = "exportDb" /\ pc = "read"
    /\ \/ IF reads[Cur] < src[Cur].n
          THEN /\ reads' = [reads EXCEPT ![Cur] = @ + 1]
               /\ StreamWrite(EJSONStringify(DocAt(src[Cur], reads[Cur] + 1)))
               /\ totalDocuments' = totalDocuments + 1
               /\ pc' = "read"
               /\ UNCHANGED <<failure, collections, i, batch, userIndexes, result>>
               /\ UNCHANGED <<src, rawIndexes, dirExists, entries, calls>>
               /\ UNCHANGED <<insertBatches, createdIndexes, indexFiles, streamEnded>>
          ELSE /\ pc' = "indexes"
               /\ UNCHANGED <<failure, locals, source, sinks, calls, buffered>>
       \/ Reject("next") /\ UNCHANGED buffered
    /\ UNCHANGED <<call, peer, app, outDirMade, query>>

\* for await (const doc of cursor) { stream.write(EJSON.stringify(doc) + "\n"); totalDocuments++ }
ExportDbRead ==
    /\ op = "exportDb" /\ pc = "read"
    /\ \/ IF reads[Cur] < src[Cur].n
          THEN /\ reads' = [reads EXCEPT ![Cur] = @ + 1]
               /\ StreamWrite(EJSONStringify(DocAt(src[Cur], reads[Cur] + 1)))
               /\ totalDocuments' = totalDocuments + 1
               /\ pc' = "read"
               /\ UNCHANGED <<failure, collections, i, batch, userIndexes, result>>
               /\ UNCHANGED <<src, rawIndexes, dirExists, entries, calls>>
               /\ UNCHANGED <<insertBatches, createdIndexes, indexFiles, streamEnded>>
          ELSE /\ pc' = "end"
               /\ UNCHANGED <<failure, locals, source, sinks, calls, buffered>>
       \/ Reject("next") /\ UNCHANGED buffered
    /\ UNCHANGED <<call, peer, app, outDirMade, query>>

\* ExportDbEnd with a slip: the promise around stream.end() is never settled
ExportDbEndNeverSettles ==
    /\ op = "exportDb" /\ pc = "end"
    /\ UNCHANGED vars

\* await new Promise((resolve, reject) => stream.end(...)): the callback runs
\* once everything the stream held is in the file
ExportDbEnd ==
    /\ op = "exportDb" /\ pc = "end"
    /\ \/ /\ sink' = [sink EXCEPT ![Cur] = @ \o buffered]
          /\ buffered' = <<>>
          /\ streamEnded' = streamEnded \cup {Cur}
          /\ pc' = "indexes"
          /\ UNCHANGED <<failure, locals, source, calls>>
          /\ UNCHANGED <<insertBatches, createdIndexes, indexFiles>>
       \/ Reject("end") /\ UNCHANGED buffered
    /\ UNCHANGED <<call, peer, app, outDirMade, query>>

\* await indexes(); filter; writeFileSync(<col>.indexes.json, JSON.stringify(userIndexes))
ExportDbIndexes ==
    /\ op = "exportDb" /\ pc = "indexes"
    /\ \/ LET raw == src[Cur].indexes
              specs == FilterIndexes(raw)
          IN  /\ rawIndexes' = rawIndexes @@ (Cur :> raw)
              /\ userIndexes' = specs
              /\ indexFiles' = [indexFiles EXCEPT ![Cur] = Append(@, JSONStringify(specs))]
              /\ i' = i + 1
              /\ pc' = "loop"
              /\ UNCHANGED <<failure, collections, batch, totalDocuments, result>>
              /\ UNCHANGED <<src, reads, dirExists, entries, calls>>
              /\ UNCHANGED <<sink, insertBatches, createdIndexes, streamEnded>>
       \/ Reject("indexes")
       \/ Reject("writeFileSync")
    /\ UNCHANGED <<call, peer, app, outDirMade, buffered, query>>

(* ------------------------------- importDb ------------------------------- *)

\* what readdirSync(inDir) may return
Listings == IF disk.known THEN {disk.listing} ELSE DirListings

\* what createReadStream(join(inDir, file)) and the sidecar of file may hold
FilesOf(col) == IF disk.known THEN {disk.files[col]} ELSE Fitting(RecordFiles, Budget)

\* ImportDbStart with a slip: the existsSync(inDir) test is missing
ImportDbStartNoCheck ==
    /\ Called("importDb")
    /\ IF ~dirExists
       THEN Reject("readdirSync")
       ELSE Db(\E listing \in Listings :
               /\ entries' = listing
               /\ collections' = SelectSeq(listing, EndsWithJsonl)
               /\ pc' = "loop"
               /\ UNCHANGED <<failure, i, batch, totalDocuments, userIndexes, result>>
               /\ UNCHANGED <<src, rawIndexes, reads, dirExists, sinks, calls>>)
    /\ UNCHANGED <<call, peer, app, outDirMade, buffered, query>>

\* if (!existsSync(inDir)) throw ...; this.db.db(dbName);
\* readdirSync(inDir).filter(endsWith(".jsonl"))
ImportDbStart ==
    /\ Called("importDb")
    /\ IF ~dirExists
       THEN Reject(DirectoryNotFound)
       ELSE Db(\E listing \in Listings :
               /\ entries' = listing
               /\ collections' = SelectSeq(listing, EndsWithJsonl)
               /\ pc' = "loop"
               /\ UNCHANGED <<failure, i, batch, totalDocuments, userIndexes, result>>
               /\ UNCHANGED <<src, rawIndexes, reads, dirExists, sinks, calls>>)
    /\ UNCHANGED <<call, peer, app, outDirMade, buffered, query>>

\* the head of the loop: the callback, then createInterface over createReadStream
ImportDbLoop ==
    /\ op = "importDb" /\ pc = "loop"
    /\ IF i < Len(collections)
       THEN /\ OnCollection(Cur, i + 1, Len(collections))
            /\ \E file \in FilesOf(Cur) : src' = src @@ (Cur :> file)
            /\ batch' = <<>>
            /\ pc' = "read"
            /\ UNCHANGED <<failure, collections, i, totalDocuments, userIndexes, result>>
            /\ UNCHANGED <<rawIndexes, reads, dirExists, entries, sinks>>
       ELSE /\ result' = ImportResult
            /\ pc' = "done"
            /\ UNCHANGED <<failure, collections, i, batch, totalDocuments, userIndexes>>
            /\ UNCHANGED <<source, sinks, calls>>
    /\ UNCHANGED <<call, peer, app, outDirMade, buffered, query>>

\* for await (const line of rl) { trim; skip if empty; batch.push(EJSON.parse(trimmed)); ...
ImportDbRead ==
    /\ op = "importDb" /\ pc = "read"
    /\ \/ IF reads[Cur] < src[Cur].n
          THEN LET trimmed == Trim(LineAt(src[Cur], reads[Cur] + 1))
                   pushed == Append(batch, EJSONParse(trimmed))
               IN  /\ reads' = [reads EXCEPT ![Cur] = @ + 1]
                   /\ IF IsEmpty(trimmed)
                      THEN batch' = batch /\ pc' = "read" /\ failure' = failure
                      ELSE IF ~Parsable(trimmed)
                      THEN batch' = batch /\ pc' = "rejected" /\ failure' = Thrown("EJSON.parse")
                      ELSE /\ batch' = pushed
                           /\ pc' = IF Len(pushed) >= BATCH_SIZE THEN "flush" ELSE "read"
                           /\ failure' = failure
                   /\ UNCHANGED <<collections, i, totalDocuments, userIndexes, result>>
                   /\ UNCHANGED <<src, rawIndexes, dirExists, entries, sinks, calls>>
          ELSE /\ pc' = IF Len(batch) > 0 THEN "finalFlush" ELSE "indexes"
               /\ UNCHANGED <<failure, locals, source, sinks, calls>>
       \/ Reject("readline")
    /\ UNCHANGED <<call, peer, app, outDirMade, buffered, query>>

ImportDbFlush == op = "importDb" /\ pc = "flush" /\ Flush(TRUE) /\ UNCHANGED <<call, peer, app, outDirMade, buffered, query>>

ImportDbFinalFlush == op = "importDb" /\ pc = "finalFlush" /\ FinalFlush(TRUE) /\ UNCHANGED <<call, peer, app, outDirMade, buffered, query>>

\* existsSync(file), for a file of inDir
ExistsSync(file) == \E k \in 1..Len(entries) : entries[k] = file

\* if (existsSync(indexFile)) { JSON.parse(readFileSync(indexFile)); filter; map; ... }
ImportDbIndexes ==
    /\ op = "importDb" /\ pc = "indexes"
    /\ IF ExistsSync(IndexFile(Cur))
       THEN LET text == src[Cur].sidecar
            IN  IF ~text.valid
                THEN Reject("JSON.parse")
                ELSE LET raw == JSONParse(text)
                         specs == UserIndexes(raw)
                     IN  /\ rawIndexes' = rawIndexes @@ (Cur :> raw)
                         /\ userIndexes' = specs
                         /\ IF Len(specs) > 0
                            THEN pc' = "createIndexes" /\ i' = i
                            ELSE pc' = "loop" /\ i' = i + 1
                         /\ UNCHANGED <<failure, collections, batch, totalDocuments, result>>
                         /\ UNCHANGED <<src, reads, dirExists, entries, sinks, calls>>
       ELSE /\ i' = i + 1
            /\ pc' = "loop"
            /\ UNCHANGED <<failure, collections, batch, totalDocuments, userIndexes, result>>
            /\ UNCHANGED <<source, sinks, calls>>
    /\ UNCHANGED <<call, peer, app, outDirMade, buffered, query>>

ImportDbCreateIndexes ==
    op = "importDb" /\ pc = "createIndexes" /\ CreateUserIndexes /\ UNCHANGED <<call, peer, app, outDirMade, buffered, query>>

Next ==
    \/ CloneDbStart
    \/ CloneDbLoop
    \/ CloneDbRead
    \/ CloneDbFlush
    \/ CloneDbFinalFlush
    \/ CloneDbIndexes
    \/ CloneDbCreateIndexes
    \/ CloneDbToClientStart
    \/ CloneDbToClientLoop
    \/ CloneDbToClientRead
    \/ CloneDbToClientFlush
    \/ CloneDbToClientFinalFlush
    \/ CloneDbToClientIndexes
    \/ CloneDbToClientCreateIndexes
    \/ ExportDbMkdir
    \/ ExportDbStart
    \/ ExportDbLoop
    \/ ExportDbRead
    \/ ExportDbEnd
    \/ ExportDbIndexes
    \/ ImportDbStart
    \/ ImportDbLoop
    \/ ImportDbRead
    \/ ImportDbFlush
    \/ ImportDbFinalFlush
    \/ ImportDbIndexes
    \/ ImportDbCreateIndexes

Spec == Init /\ [][Next]_vars

\* a call with a callback, into an empty sink
TerminationInit ==
    /\ Init
    /\ hasCallback
    /\ sink0 = EmptySink
    /\ outDir \in {".", "dump"}

\* one call of a transfer method in which every awaited operation (cursor
\* fetch, insert, index and file operation) eventually returns or fails
Termination == TerminationInit /\ [][Next]_vars /\ WF_vars(Next)

(* ------------------------- connect and disconnect ----------------------- *)

\* this.client = new NativeClient(uri, ...); await this.client.connect()
Connect ==
    /\ pc = "start" /\ pending = "none"
    /\ Len(handles) < MaxHandles
    /\ handles' = Append(handles, "created")
    /\ client' = Len(handles) + 1
    /\ pending' = "connect"
    /\ UNCHANGED <<peer, app, op, hasCallback, sink0, outDir, flushing, outcome, targetConnected, disk>>
    /\ UNCHANGED <<pc, failure, locals, source, sinks, calls, outDirMade, buffered, query>>

\* await this.client.connect() resolves
ConnectResolved ==
    /\ pending = "connect"
    /\ handles' = [handles EXCEPT ![client] = "open"]
    /\ pending' = "none"
    /\ outcome' = "connect resolved"
    /\ UNCHANGED <<peer, app, op, hasCallback, sink0, outDir, flushing, client, targetConnected, disk>>
    /\ UNCHANGED <<pc, failure, locals, source, sinks, calls, outDirMade, buffered, query>>

\* await this.client.connect() rejects (server selection timed out, refused)
ConnectRejected ==
    /\ pending = "connect"
    /\ handles' = [handles EXCEPT ![client] = "failed"]
    /\ pending' = "none"
    /\ outcome' = "connect rejected"
    /\ UNCHANGED <<peer, app, op, hasCallback, sink0, outDir, flushing, client, targetConnected, disk>>
    /\ UNCHANGED <<pc, failure, locals, source, sinks, calls, outDirMade, buffered, query>>

\* await this.client?.close(): without a handle there is nothing to await
Disconnect ==
    /\ pc = "start" /\ pending = "none"
    /\ IF client = Null
       THEN /\ outcome' = "disconnect resolved"
            /\ UNCHANGED <<client, handles, pending>>
       ELSE /\ pending' = "disconnect"
            /\ UNCHANGED <<client, handles, outcome>>
    /\ UNCHANGED <<peer, app, op, hasCallback, sink0, outDir, flushing, targetConnected, disk>>
    /\ UNCHANGED <<pc, failure, locals, source, sinks, calls, outDirMade, buffered, query>>

\* close() resolves; this.client = null
DisconnectResolved ==
    /\ pending = "disconnect"
    /\ handles' = [handles EXCEPT ![client] = "closed"]
    /\ client' = Null
    /\ pending' = "none"
    /\ outcome' = "disconnect resolved"
    /\ UNCHANGED <<peer, app, op, hasCallback, sink0, outDir, flushing, targetConnected, disk>>
    /\ UNCHANGED <<pc, failure, locals, source, sinks, calls, outDirMade, buffered, query>>

\* close() rejects: the await throws and this.client = null is not reached
DisconnectRejected ==
    /\ pending = "disconnect"
    /\ pending' = "none"
    /\ outcome' = "disconnect rejected"
    /\ UNCHANGED <<peer, app, op, hasCallback, sink0, outDir, flushing, client, handles, targetConnected, disk>>
    /\ UNCHANGED <<pc, failure, locals, source, sinks, calls, outDirMade, buffered, query>>

(* ------------------- the data operations that move nothing -------------- *)

\* the call resolves with value
Resolve(value) ==
    /\ result' = [kind |-> "value", value |-> value]
    /\ pc' = "done"
    /\ UNCHANGED <<failure, collections, i, batch, totalDocuments, userIndexes>>
    /\ UNCHANGED <<source, sinks, calls>>

\* NotSystemDb with a slip: only admin is held back
NotAdminDb(d) == d.name # "admin"

\* !SYSTEM_DBS.includes(d.name)
NotSystemDb(d) == d.name \notin SYSTEM_DBS

\* (d) => ({ name: d.name, sizeOnDisk: d.sizeOnDisk })
DbInfo(d) == [name |-> d.name, sizeOnDisk |-> d.sizeOnDisk]

\* result.databases.filter(...).map(...)
DbInfos(databases) ==
    LET kept == SelectSeq(databases, NotSystemDb)
    IN  [k \in 1..Len(kept) |-> DbInfo(kept[k])]

\* await this.db.db("admin").admin().listDatabases(), then filter and map
ListDatabases ==
    /\ Called("listDatabases")
    /\ IF client = Null
       THEN Reject(NotConnected) /\ UNCHANGED served
       ELSE \/ \E found \in ClusterDatabases :
                 /\ served' = found
                 /\ Resolve(DbInfos(found))
            \/ Reject("listDatabases") /\ UNCHANGED served
    /\ UNCHANGED <<call, peer, app, outDirMade, buffered, inFlight, counts>>

\* the methods that run listCollections(dbName)
CountingCalls == {"listCollections", "getDbStats"}

\* what a countDocuments() can answer
CountValues == {0, 5, 10}

\* ListCollectionsOfDb with a slip: only the first countDocuments() is started
ListCollectionsOfDbOneByOne ==
    /\ op \in CountingCalls /\ Called(op)
    /\ IF client = Null
       THEN Reject(NotConnected) /\ UNCHANGED <<inFlight, counts>>
       ELSE \/ \E n \in 0..MaxCols :
                 /\ collections' = [k \in 1..n |-> ColName(k)]
                 /\ inFlight' = 1..n \cap {1}
                 /\ pc' = "count"
                 /\ UNCHANGED <<failure, i, batch, totalDocuments, userIndexes, result>>
                 /\ UNCHANGED <<source, sinks, calls, counts>>
            \/ Reject("listCollections") /\ UNCHANGED <<inFlight, counts>>
    /\ UNCHANGED <<call, peer, app, outDirMade, buffered, served>>

\* this.db.db(dbName); await db.listCollections().toArray(); collections.map(async ...)
\* runs every callback up to its await: every countDocuments() is started
ListCollectionsOfDb ==
    /\ op \in CountingCalls /\ Called(op)
    /\ IF client = Null
       THEN Reject(NotConnected) /\ UNCHANGED <<inFlight, counts>>
       ELSE \/ \E n \in 0..MaxCols :
                 /\ collections' = [k \in 1..n |-> ColName(k)]
                 /\ inFlight' = 1..n
                 /\ pc' = "count"
                 /\ UNCHANGED <<failure, i, batch, totalDocuments, userIndexes, result>>
                 /\ UNCHANGED <<source, sinks, calls, counts>>
            \/ Reject("listCollections") /\ UNCHANGED <<inFlight, counts>>
    /\ UNCHANGED <<call, peer, app, outDirMade, buffered, served>>

\* one countDocuments() is answered, or fails: Promise.all rejects with the
\* first failure and the other requests stay under way
CountDocuments ==
    /\ op \in CountingCalls /\ pc = "count"
    /\ \E k \in inFlight :
          /\ inFlight' = inFlight \ {k}
          /\ \/ \E n \in CountValues :
                   /\ counts' = counts @@ (k :> n)
                   /\ UNCHANGED <<pc, failure, locals, source, sinks, calls>>
             \/ Reject("countDocuments") /\ UNCHANGED counts
    /\ UNCHANGED <<call, peer, app, outDirMade, buffered, served>>

\* name and count of every collection, in the order of collections
CollectionInfos ==
    [k \in 1..Len(collections) |-> [name |-> collections[k], count |-> counts[k]]]

RECURSIVE SumCountsButLast(_)
\* SumCounts with a slip: the last collection is left out
SumCountsButLast(infos) ==
    IF Len(infos) <= 1 THEN 0 ELSE infos[1].count + SumCountsButLast(Tail(infos))

RECURSIVE SumCounts(_)
\* collections.reduce((sum, c) => sum + c.count, 0)
SumCounts(infos) ==
    IF infos = <<>> THEN 0 ELSE infos[1].count + SumCounts(Tail(infos))

\* { name: dbName, collections, totalDocuments }
DbStats(infos) ==
    [name |-> "dbName", collections |-> infos, totalDocuments |-> SumCounts(infos)]

\* Promise.all resolves once every count is in: listCollections returns the
\* list, getDbStats adds the sum of the counts
CountsGathered ==
    /\ op \in CountingCalls /\ pc = "count" /\ inFlight = {}
    /\ Resolve(IF op = "getDbStats" THEN DbStats(CollectionInfos) ELSE CollectionInfos)
    /\ UNCHANGED <<call, peer, app, outDirMade, buffered, query>>

\* await this.db.db(dbName).dropDatabase()
DropDb ==
    /\ Called("dropDb")
    /\ Db(\/ /\ result' = [kind |-> "void"]
             /\ pc' = "done"
             /\ UNCHANGED <<failure, collections, i, batch, totalDocuments, userIndexes>>
             /\ UNCHANGED <<source, sinks, calls>>
          \/ Reject("dropDatabase"))
    /\ UNCHANGED <<call, peer, app, outDirMade, buffered, query>>

\* a Connection from its construction: connect() and disconnect() in any order,
\* each awaited, and then the first step of a data operation (its later steps
\* are those of Spec)
LifecycleInit ==
    /\ op \in DataOps
    /\ hasCallback \in BOOLEAN
    /\ sink0 = EmptySink
    /\ outDir = "."
    /\ flushing = "prompt"
    /\ dirExists \in (IF op = "importDb" THEN BOOLEAN ELSE {TRUE})
    /\ client = Null
    /\ handles = <<>>
    /\ pending = "none"
    /\ outcome = "none"
    /\ targetConnected \in (IF op = "cloneDbToClient" THEN BOOLEAN ELSE {TRUE})
    /\ disk = NoDisk
    /\ other = NoOther
    /\ running = 1
    /\ NoOperation
    /\ NothingDone

LifecycleNext ==
    \/ Connect
    \/ ConnectResolved
    \/ ConnectRejected
    \/ Disconnect
    \/ DisconnectResolved
    \/ DisconnectRejected
    \/ ListDatabases
    \/ ListCollectionsOfDb
    \/ CountDocuments
    \/ CountsGathered
    \/ DropDb
    \/ CloneDbStart
    \/ CloneDbToClientStart
    \/ ExportDbMkdir
    \/ ExportDbStart
    \/ ImportDbStart

Lifecycle == LifecycleInit /\ [][LifecycleNext]_vars

(* ------------------------ exportDb, then importDb ----------------------- *)

\* the names that have a record file in the directory once exportDb returned:
\* the exported collections and the files that were there before
NamesOnDisk == {c \in Names : sink[c] # <<>> \/ \E k \in 1..Len(collections) : Col(k) = c}

\* the directory as the exportDb that just returned leaves it
Exported ==
    [known   |-> TRUE,
     origin  |-> [c \in {Col(k) : k \in 1..Len(collections)} |-> src[c]],
     listing |-> ListingOf(Cardinality(NamesOnDisk), 1..Len(collections), FALSE),
     files   |-> [c \in NamesOnDisk |->
                    [n |-> Len(sink[c]), blanks |-> {}, bad |-> {}, lines |-> sink[c],
                     sidecar |-> IF indexFiles[c] # <<>>
                                 THEN indexFiles[c][Len(indexFiles[c])]
                                 ELSE MalformedJSON]]]

\* await exporter.exportDb("original", dir) has returned;
\* importer.importDb("restored", dir) is called, "restored" being empty
ImportExported ==
    /\ op = "exportDb" /\ pc = "done"
    /\ disk' = Exported
    /\ op' = "importDb"
    /\ pc' = "start"
    /\ sink0' = EmptySink
    /\ sink' = EmptySink
    /\ dirExists' = outDirMade
    /\ outDirMade' = FALSE
    /\ collections' = <<>>
    /\ i' = 0
    /\ totalDocuments' = 0
    /\ userIndexes' = <<>>
    /\ result' = NoResult
    /\ src' = <<>>
    /\ rawIndexes' = <<>>
    /\ reads' = [c \in Names |-> 0]
    /\ entries' = <<>>
    /\ indexFiles' = [c \in Names |-> <<>>]
    /\ streamEnded' = {}
    /\ calls' = <<>>
    /\ UNCHANGED <<hasCallback, outDir, flushing, conn, failure, batch, peer, app>>
    /\ UNCHANGED <<insertBatches, createdIndexes, buffered, query>>

RoundTripInit ==
    /\ op = "exportDb"
    /\ hasCallback \in BOOLEAN
    /\ sink0 \in {EmptySink, LoadedSink(op)}
    /\ outDir = "dump"
    /\ flushing \in Flushings
    /\ dirExists = FALSE
    /\ client = 1
    /\ handles = <<"open">>
    /\ pending = "none"
    /\ outcome = "connect resolved"
    /\ targetConnected = TRUE
    /\ disk = NoDisk
    /\ other = NoOther
    /\ running = 1
    /\ NoOperation
    /\ NothingDone

RoundTripNext ==
    \/ ExportDbMkdir
    \/ ExportDbStart
    \/ ExportDbLoop
    \/ ExportDbRead
    \/ ExportDbEnd
    \/ ExportDbIndexes
    \/ ImportExported
    \/ ImportDbStart
    \/ ImportDbLoop
    \/ ImportDbRead
    \/ ImportDbFlush
    \/ ImportDbFinalFlush
    \/ ImportDbIndexes
    \/ ImportDbCreateIndexes

RoundTrip == RoundTripInit /\ [][RoundTripNext]_vars

(* ----------------------- two calls, interleaved ------------------------- *)

\* all that belongs to the running call: its arguments, its Connection, its
\* local variables (let batch, let totalDocuments, the loop index), its source
\* and its sink.  The methods keep nothing outside these: the class has the
\* one field client, and the module the one constant BATCH_SIZE
Frame ==
    [op |-> op,
     hasCallback |-> hasCallback,
     sink0 |-> sink0,
     outDir |-> outDir,
     flushing |-> flushing,
     client |-> client,
     handles |-> handles,
     pending |-> pending,
     outcome |-> outcome,
     targetConnected |-> targetConnected,
     disk |-> disk,
     pc |-> pc,
     failure |-> failure,
     collections |-> collections,
     i |-> i,
     batch |-> batch,
     totalDocuments |-> totalDocuments,
     userIndexes |-> userIndexes,
     result |-> result,
     src |-> src,
     rawIndexes |-> rawIndexes,
     reads |-> reads,
     dirExists |-> dirExists,
     entries |-> entries,
     sink |-> sink,
     insertBatches |-> insertBatches,
     createdIndexes |-> createdIndexes,
     indexFiles |-> indexFiles,
     streamEnded |-> streamEnded,
     calls |-> calls,
     outDirMade |-> outDirMade,
     buffered |-> buffered,
     served |-> served,
     inFlight |-> inFlight,
     counts |-> counts]

\* the directory the second call imports: one record file of two documents
\* and its sidecar
SmallDump ==
    [known   |-> TRUE,
     origin  |-> <<>>,
     listing |-> ListingOf(1, {1}, FALSE),
     files   |-> [c \in {ColName(1)} |->
                    File(2, {}, {}, JSONStringify(<<IdIndex, EmailIndex>>))]]

\* second.importDb("restored", dir), called on a Connection of its own and
\* not started yet
SecondCall ==
    [op |-> "importDb", hasCallback |-> TRUE, sink0 |-> EmptySink, outDir |-> ".",
     flushing |-> "prompt", client |-> 1, handles |-> <<"open">>, pending |-> "none",
     outcome |-> "connect resolved", targetConnected |-> TRUE, disk |-> SmallDump,
     pc |-> "start", failure |-> NoFailure, collections |-> <<>>, i |-> 0,
     batch |-> <<>>, totalDocuments |-> 0, userIndexes |-> <<>>, result |-> NoResult,
     src |-> <<>>, rawIndexes |-> <<>>, reads |-> [c \in Names |-> 0],
     dirExists |-> TRUE, entries |-> <<>>, sink |-> EmptySink,
     insertBatches |-> [c \in Names |-> <<>>],
     createdIndexes |-> [c \in Names |-> <<>>],
     indexFiles |-> [c \in Names |-> <<>>], streamEnded |-> {}, calls |-> <<>>,
     outDirMade |-> FALSE, buffered |-> <<>>, served |-> <<>>, inFlight |-> {},
     counts |-> <<>>]

\* Yield with a slip: batch and totalDocuments are kept by the module, not by
\* the call, so the call that resumes goes on with those of the other
YieldSharingBatch ==
    /\ other.pc \notin {"none", "done", "rejected"}
    /\ other' = Frame
    /\ running' = 3 - running
    /\ UNCHANGED app
    /\ UNCHANGED <<batch, totalDocuments>>
    /\ op' = other.op
    /\ hasCallback' = other.hasCallback
    /\ sink0' = other.sink0
    /\ outDir' = other.outDir
    /\ flushing' = other.flushing
    /\ client' = other.client
    /\ handles' = other.handles
    /\ pending' = other.pending
    /\ outcome' = other.outcome
    /\ targetConnected' = other.targetConnected
    /\ disk' = other.disk
    /\ pc' = other.pc
    /\ failure' = other.failure
    /\ collections' = other.collections
    /\ i' = other.i
    /\ userIndexes' = other.userIndexes
    /\ result' = other.result
    /\ src' = other.src
    /\ rawIndexes' = other.rawIndexes
    /\ reads' = other.reads
    /\ dirExists' = other.dirExists
    /\ entries' = other.entries
    /\ sink' = other.sink
    /\ insertBatches' = other.insertBatches
    /\ createdIndexes' = other.createdIndexes
    /\ indexFiles' = other.indexFiles
    /\ streamEnded' = other.streamEnded
    /\ calls' = other.calls
    /\ outDirMade' = other.outDirMade
    /\ buffered' = other.buffered
    /\ served' = other.served
    /\ inFlight' = other.inFlight
    /\ counts' = other.counts

\* the running call is at an await (every step of the model ends at one): the
\* event loop resumes the other call, which goes on from where it stopped
\* with what is its own
Yield ==
    /\ other.pc \notin {"none", "done", "rejected"}
    /\ other' = Frame
    /\ running' = 3 - running
    /\ UNCHANGED app
    /\ op' = other.op
    /\ hasCallback' = other.hasCallback
    /\ sink0' = other.sink0
    /\ outDir' = other.outDir
    /\ flushing' = other.flushing
    /\ client' = other.client
    /\ handles' = other.handles
    /\ pending' = other.pending
    /\ outcome' = other.outcome
    /\ targetConnected' = other.targetConnected
    /\ disk' = other.disk
    /\ pc' = other.pc
    /\ failure' = other.failure
    /\ collections' = other.collections
    /\ i' = other.i
    /\ batch' = other.batch
    /\ totalDocuments' = other.totalDocuments
    /\ userIndexes' = other.userIndexes
    /\ result' = other.result
    /\ src' = other.src
    /\ rawIndexes' = other.rawIndexes
    /\ reads' = other.reads
    /\ dirExists' = other.dirExists
    /\ entries' = other.entries
    /\ sink' = other.sink
    /\ insertBatches' = other.insertBatches
    /\ createdIndexes' = other.createdIndexes
    /\ indexFiles' = other.indexFiles
    /\ streamEnded' = other.streamEnded
    /\ calls' = other.calls
    /\ outDirMade' = other.outDirMade
    /\ buffered' = other.buffered
    /\ served' = other.served
    /\ inFlight' = other.inFlight
    /\ counts' = other.counts

\* two calls on two Connections: cloneDbToClient or exportDb is called, then
\* importDb of a small directory on another Connection, before the first
\* has taken a step.  The file of the import is shorter than a batch: its
\* documents go out in the flush after the loop
TwoCallsInit ==
    /\ op \in {"cloneDbToClient", "exportDb"}
    /\ hasCallback = TRUE
    /\ sink0 = EmptySink
    /\ outDir = (IF op = "exportDb" THEN "dump" ELSE ".")
    /\ flushing = "prompt"
    /\ dirExists = TRUE
    /\ client = 1
    /\ handles = <<"open">>
    /\ pending = "none"
    /\ outcome = "connect resolved"
    /\ targetConnected = TRUE
    /\ disk = NoDisk
    /\ other = SecondCall
    /\ running = 1
    /\ NoOperation
    /\ NothingDone

TwoCallsNext ==
    \/ CloneDbToClientStart
    \/ CloneDbToClientLoop
    \/ CloneDbToClientRead
    \/ CloneDbToClientFlush
    \/ CloneDbToClientFinalFlush
    \/ CloneDbToClientIndexes
    \/ CloneDbToClientCreateIndexes
    \/ ExportDbMkdir
    \/ ExportDbStart
    \/ ExportDbLoop
    \/ ExportDbRead
    \/ ExportDbEnd
    \/ ExportDbIndexes
    \/ ImportDbStart
    \/ ImportDbLoop
    \/ ImportDbRead
    \/ ImportDbFinalFlush
    \/ ImportDbIndexes
    \/ ImportDbCreateIndexes
    \/ Yield

TwoCalls == TwoCallsInit /\ [][TwoCallsNext]_vars

(* ---------------------------- cluster-manager --------------------------- *)

\* the list is capped at MaxClusters entries
MaxClusters == 3

ClusterNames == {"prod", "staging", "dev"}

Uris == {"mongodb://one", "mongodb://two"}

Cluster(name, uri) == [name |-> name, uri |-> uri]

\* all that belongs to a call of a MongoClient method
method ==
    <<op, hasCallback, sink0, outDir, flushing, targetConnected, disk, pc, failure,
      locals, source, sinks, calls, outDirMade, buffered, query, peer>>

\* all that belongs to a MongoClient's handle
handle == <<client, handles, pending, outcome>>

\* no MongoClient exists and no method of one runs
NoCall ==
    /\ op = "listDatabases"
    /\ hasCallback = FALSE
    /\ sink0 = EmptySink
    /\ outDir = "."
    /\ flushing = "prompt"
    /\ dirExists = TRUE
    /\ client = Null
    /\ handles = <<>>
    /\ pending = "none"
    /\ outcome = "none"
    /\ targetConnected = TRUE
    /\ disk = NoDisk
    /\ other = NoOther
    /\ running = 1
    /\ NothingDone

\* what CLUSTERS_FILE parses to; [] when the file is missing
LoadClusters == stored

SaveClusters(clusters) == stored' = clusters

HasName(clusters, name) == \E k \in 1..Len(clusters) : clusters[k].name = name

\* addCluster throws when the name is taken, and otherwise appends and saves
AddCluster(cluster) ==
    IF HasName(LoadClusters, cluster.name)
    THEN storeError' = "already exists" /\ UNCHANGED stored
    ELSE SaveClusters(Append(LoadClusters, cluster)) /\ storeError' = "none"

\* removeCluster saves the list without the clusters of that name
RemoveCluster(name) ==
    /\ SaveClusters(SelectSeq(LoadClusters, LAMBDA c : c.name # name))
    /\ storeError' = "none"

\* renameCluster gives every cluster named oldName the name newName and saves
RenameCluster(oldName, newName) ==
    /\ SaveClusters([k \in 1..Len(LoadClusters) |->
          IF LoadClusters[k].name = oldName
          THEN [LoadClusters[k] EXCEPT !.name = newName]
          ELSE LoadClusters[k]])
    /\ storeError' = "none"

AddClusterCalled ==
    /\ Len(stored) < MaxClusters
    /\ \E name \in ClusterNames, uri \in Uris : AddCluster(Cluster(name, uri))
    /\ UNCHANGED <<ui, method, handle>>

RemoveClusterCalled ==
    /\ \E name \in ClusterNames : RemoveCluster(name)
    /\ UNCHANGED <<ui, method, handle>>

RenameClusterCalled ==
    /\ \E oldName \in ClusterNames, newName \in ClusterNames :
          RenameCluster(oldName, newName)
    /\ UNCHANGED <<ui, method, handle>>

\* the store starts empty
ClustersInit == NoCall /\ NoOperation

ClustersNext ==
    \/ AddClusterCalled
    \/ RemoveClusterCalled
    \/ RenameClusterCalled

Clusters == ClustersInit /\ [][ClustersNext]_vars

(* --------------- cloneOperation, uploadOperation, dropOperation --------- *)

\* the cluster the user is connected to: the operation's cluster argument
ActiveCluster == "prod"

\* the names a database has on a cluster, or gets typed at "New database name:"
DbNames == {"app", "shop", "fresh"}

\* what listDatabases() resolves with
DbLists == {<<>>, <<"app">>, <<"app", "shop">>}

Listed(name) == \E k \in 1..Len(dbs) : dbs[k] = name

\* a call of method m on who (the client argument, or targetClient) for db
Issue(who, m, db) ==
    issued' = Append(issued, [client |-> who, method |-> m, db |-> db, state |-> "pending"])

\* the call awaited resolves, or rejects
Settle(state) == issued' = [issued EXCEPT ![Len(issued)].state = state]

\* the user answers a prompt
Answer(prompt, a) == answers' = Append(answers, <<prompt, a>>)

\* cloneOperation is inside try { ... } finally { await targetClient.disconnect() }
InTry == operation = "clone" /\ client # Null

\* the operation returns, or throws: through the finally block when inside it
End(how) == at' = IF InTry THEN <<"finally", how>> ELSE <<how>>

\* handleCancel: the prompt was cancelled, GoBackError is thrown
Cancelled(prompt) == Answer(prompt, "cancel") /\ End("threw")

\* who a cross-cluster clone clears and reads the target's stats from
Target == IF InTry THEN "targetClient" ELSE "client"

\* the call that moves the data
Transfer ==
    IF operation = "upload" THEN "importDb"
    ELSE IF InTry THEN "cloneDbToClient" ELSE "cloneDb"

\* uploadOperation: promptExistingPath, then existsSync(localPath)
UploadPath ==
    /\ operation = "upload" /\ at = <<"start">>
    /\ \/ Answer("path", "directory") /\ at' = <<"fetch">>
       \/ Answer("path", "missing") /\ at' = <<"returned">>
       \/ Cancelled("path")
    /\ UNCHANGED <<operation, dbs, sourceDb, targetDb, targetStats, issued>>
    /\ UNCHANGED <<store, handle, method>>

\* const dbs = await client.listDatabases(): the call
Fetch ==
    /\ \/ operation \in {"clone", "drop"} /\ at = <<"start">>
       \/ at = <<"fetch">>
    /\ Issue("client", "listDatabases", "")
    /\ at' = <<"fetching">>
    /\ UNCHANGED <<operation, dbs, sourceDb, targetDb, targetStats, answers>>
    /\ UNCHANGED <<store, handle, method>>

\* await client.listDatabases() resolves, or rejects
Fetched ==
    /\ at = <<"fetching">>
    /\ \/ /\ Settle("resolved")
          /\ dbs' \in DbLists
          /\ at' = <<"select">>
       \/ /\ Settle("rejected")
          /\ End("threw")
          /\ UNCHANGED dbs
    /\ UNCHANGED <<operation, sourceDb, targetDb, targetStats, answers>>
    /\ UNCHANGED <<store, handle, method>>

\* selectDatabase(dbs, message): cloneOperation's source, dropOperation's dbName
SelectSource ==
    /\ operation \in {"clone", "drop"} /\ at = <<"select">>
    /\ \/ \E k \in 1..Len(dbs) :
             /\ sourceDb' = dbs[k]
             /\ Answer("source", dbs[k])
             /\ at' = IF operation = "clone" THEN <<"target">> ELSE <<"backup">>
       \/ Cancelled("source") /\ UNCHANGED sourceDb
    /\ UNCHANGED <<operation, dbs, targetDb, targetStats, issued>>
    /\ UNCHANGED <<store, handle, method>>

\* what selectCloneTarget lets through as a database of the same cluster: a
\* listed database other than the source, or any name typed as a new one
CloneTargets == {d \in DbNames : Listed(d) /\ d # sourceDb} \cup DbNames

\* selectCloneTarget(dbs, sourceDb), then await client.getDbStats(sourceDb)
\* or the head of the target cluster loop
SelectCloneTarget ==
    /\ operation = "clone" /\ at = <<"target">>
    /\ \/ \E d \in CloneTargets :
             /\ targetDb' = d
             /\ Answer("target", d)
             /\ Issue("client", "getDbStats", sourceDb)
             /\ at' = <<"sourceStats">>
       \/ /\ Answer("target", "__other__")
          /\ at' = <<"cluster">>
          /\ UNCHANGED <<targetDb, issued>>
       \/ Cancelled("target") /\ UNCHANGED <<targetDb, issued>>
    /\ UNCHANGED <<operation, dbs, sourceDb, targetStats>>
    /\ UNCHANGED <<store, handle, method>>

\* dbs.find((d) => d.name === targetDb) ? await getDbStats(targetDb) : null
FetchTargetStats ==
    IF Listed(targetDb')
    THEN Issue(Target, "getDbStats", targetDb') /\ at' = <<"targetStats">>
    ELSE UNCHANGED issued /\ at' = <<"confirm">>

\* uploadOperation: selectDatabase(dbs, message, true), then the target's stats
SelectUploadTarget ==
    /\ operation = "upload" /\ at = <<"select">>
    /\ \/ \E d \in DbNames :
             /\ targetDb' = d
             /\ Answer("target", d)
             /\ FetchTargetStats
       \/ Cancelled("target") /\ UNCHANGED <<targetDb, issued>>
    /\ UNCHANGED <<operation, dbs, sourceDb, targetStats>>
    /\ UNCHANGED <<store, handle, method>>

\* await client.getDbStats(sourceDb) resolves, or rejects
SourceStats ==
    /\ at = <<"sourceStats">>
    /\ \/ /\ issued' = IF Listed(targetDb)
                       THEN Append([issued EXCEPT ![Len(issued)].state = "resolved"],
                                   [client |-> Target, method |-> "getDbStats",
                                    db |-> targetDb, state |-> "pending"])
                       ELSE [issued EXCEPT ![Len(issued)].state = "resolved"]
          /\ at' = IF Listed(targetDb) THEN <<"targetStats">> ELSE <<"confirm">>
       \/ Settle("rejected") /\ End("threw")
    /\ UNCHANGED <<operation, dbs, sourceDb, targetDb, targetStats, answers>>
    /\ UNCHANGED <<store, handle, method>>

\* await getDbStats(targetDb) resolves, or rejects
TargetStats ==
    /\ at = <<"targetStats">>
    /\ \/ /\ Settle("resolved")
          /\ targetStats' = TRUE
          /\ at' = <<"confirm">>
       \/ /\ Settle("rejected")
          /\ End("threw")
          /\ UNCHANGED targetStats
    /\ UNCHANGED <<operation, dbs, sourceDb, targetDb, answers>>
    /\ UNCHANGED <<store, handle, method>>

\* Confirm with a slip: if (!confirmed) return is missing
ConfirmAnswerIgnored ==
    /\ operation \in {"clone", "upload"} /\ at = <<"confirm">>
    /\ \/ /\ \E a \in {"yes", "no"} : Answer("confirm", a)
          /\ IF targetStats
             THEN Issue(Target, "dropDb", targetDb) /\ at' = <<"clearing">>
             ELSE Issue("client", Transfer, targetDb) /\ at' = <<"transfer">>
       \/ Cancelled("confirm") /\ UNCHANGED issued
    /\ UNCHANGED <<operation, dbs, sourceDb, targetDb, targetStats>>
    /\ UNCHANGED <<store, handle, method>>

\* confirmAction(...); if (!confirmed) return; await tasks([...]): the first
\* task that is enabled starts
Confirm ==
    /\ operation \in {"clone", "upload"} /\ at = <<"confirm">>
    /\ \/ /\ Answer("confirm", "yes")
          /\ IF targetStats
             THEN Issue(Target, "dropDb", targetDb) /\ at' = <<"clearing">>
             ELSE Issue("client", Transfer, targetDb) /\ at' = <<"transfer">>
       \/ Answer("confirm", "no") /\ End("returned") /\ UNCHANGED issued
       \/ Cancelled("confirm") /\ UNCHANGED issued
    /\ UNCHANGED <<operation, dbs, sourceDb, targetDb, targetStats>>
    /\ UNCHANGED <<store, handle, method>>

\* the task "Clearing": await dropDb(targetDb) resolves and the next task
\* starts, or rejects and tasks() rejects
Cleared ==
    /\ at = <<"clearing">>
    /\ \/ /\ issued' = Append([issued EXCEPT ![Len(issued)].state = "resolved"],
                              [client |-> "client", method |-> Transfer,
                               db |-> targetDb, state |-> "pending"])
          /\ at' = <<"transfer">>
       \/ Settle("rejected") /\ End("threw")
    /\ UNCHANGED <<operation, dbs, sourceDb, targetDb, targetStats, answers>>
    /\ UNCHANGED <<store, handle, method>>

\* await cloneDb / cloneDbToClient / importDb resolves, or rejects
Transferred ==
    /\ at = <<"transfer">>
    /\ \/ Settle("resolved") /\ End("returned")
       \/ Settle("rejected") /\ End("threw")
    /\ UNCHANGED <<operation, dbs, sourceDb, targetDb, targetStats, answers>>
    /\ UNCHANGED <<store, handle, method>>

\* dropOperation: const wantsBackup = await confirmAction(..., true)
AskBackup ==
    /\ operation = "drop" /\ at = <<"backup">>
    /\ \/ Answer("backup", "yes") /\ at' = <<"path">>
       \/ Answer("backup", "no") /\ at' = <<"confirmDrop">>
       \/ Cancelled("backup")
    /\ UNCHANGED <<operation, dbs, sourceDb, targetDb, targetStats, issued>>
    /\ UNCHANGED <<store, handle, method>>

\* dropOperation: promptNewPath, then await client.exportDb(dbName, outDir, ...)
BackupPath ==
    /\ operation = "drop" /\ at = <<"path">>
    /\ \/ /\ Answer("path", "directory")
          /\ Issue("client", "exportDb", sourceDb)
          /\ at' = <<"exporting">>
       \/ Cancelled("path") /\ UNCHANGED issued
    /\ UNCHANGED <<operation, dbs, sourceDb, targetDb, targetStats>>
    /\ UNCHANGED <<store, handle, method>>

\* BackupExported with the export inside a try/catch that logs and goes on
BackupExportedOrNot ==
    /\ at = <<"exporting">>
    /\ \E state \in {"resolved", "rejected"} : Settle(state)
    /\ at' = <<"confirmDrop">>
    /\ UNCHANGED <<operation, dbs, sourceDb, targetDb, targetStats, answers>>
    /\ UNCHANGED <<store, handle, method>>

\* dropOperation: await client.exportDb(...) resolves, or rejects
BackupExported ==
    /\ at = <<"exporting">>
    /\ \/ Settle("resolved") /\ at' = <<"confirmDrop">>
       \/ Settle("rejected") /\ End("threw")
    /\ UNCHANGED <<operation, dbs, sourceDb, targetDb, targetStats, answers>>
    /\ UNCHANGED <<store, handle, method>>

\* dropOperation: confirmAction("Drop ... permanently?"), then await dropDb
ConfirmDrop ==
    /\ operation = "drop" /\ at = <<"confirmDrop">>
    /\ \/ /\ Answer("confirm", "yes")
          /\ Issue("client", "dropDb", sourceDb)
          /\ at' = <<"dropping">>
       \/ Answer("confirm", "no") /\ End("returned") /\ UNCHANGED issued
       \/ Cancelled("confirm") /\ UNCHANGED issued
    /\ UNCHANGED <<operation, dbs, sourceDb, targetDb, targetStats>>
    /\ UNCHANGED <<store, handle, method>>

\* dropOperation: await client.dropDb(dbName) resolves, or rejects
Dropped ==
    /\ at = <<"dropping">>
    /\ \/ Settle("resolved") /\ End("returned")
       \/ Settle("rejected") /\ End("threw")
    /\ UNCHANGED <<operation, dbs, sourceDb, targetDb, targetStats, answers>>
    /\ UNCHANGED <<store, handle, method>>

\* loadClusters().filter((c) => c.name !== cluster.name)
OtherClusters == SelectSeq(LoadClusters, LAMBDA c : c.name # ActiveCluster)

\* the head of while (true): none to choose from, or selectTargetCluster;
\* with a cluster chosen, targetClient = new MongoClient() and connect(uri)
SelectTargetCluster ==
    /\ operation = "clone" /\ at = <<"cluster">>
    /\ IF OtherClusters = <<>>
       THEN End("returned") /\ UNCHANGED <<answers, handle>>
       ELSE \/ \E k \in 1..Len(OtherClusters) :
                  /\ Answer("cluster", OtherClusters[k].name)
                  /\ handles' = Append(handles, "created")
                  /\ client' = Len(handles) + 1
                  /\ pending' = "connect"
                  /\ at' = <<"connecting">>
                  /\ UNCHANGED outcome
            \/ Answer("cluster", "__new__") /\ at' = <<"newCluster">> /\ UNCHANGED handle
            \/ Cancelled("cluster") /\ UNCHANGED handle
    /\ UNCHANGED <<operation, dbs, sourceDb, targetDb, targetStats, issued>>
    /\ UNCHANGED <<store, method>>

\* promptNewCluster(names): a name its validate lets through; addCluster; continue
NewCluster ==
    /\ operation = "clone" /\ at = <<"newCluster">>
    /\ Len(stored) < MaxClusters
    /\ \/ /\ \E name \in ClusterNames, uri \in Uris :
                /\ ~HasName(LoadClusters, name)
                /\ AddCluster(Cluster(name, uri))
          /\ Answer("newCluster", "named")
          /\ at' = <<"cluster">>
       \/ Cancelled("newCluster") /\ UNCHANGED store
    /\ UNCHANGED <<operation, dbs, sourceDb, targetDb, targetStats, issued>>
    /\ UNCHANGED <<handle, method>>

\* await targetClient.connect(uri) resolves and the try block starts with
\* targetClient.listDatabases(), or rejects: catch, log, return
TargetConnected ==
    /\ operation = "clone" /\ at = <<"connecting">>
    /\ pending' = "none"
    /\ \/ /\ handles' = [handles EXCEPT ![client] = "open"]
          /\ outcome' = "connect resolved"
          /\ Issue("targetClient", "listDatabases", "")
          /\ at' = <<"targetFetching">>
       \/ /\ handles' = [handles EXCEPT ![client] = "failed"]
          /\ outcome' = "connect rejected"
          /\ at' = <<"returned">>
          /\ UNCHANGED issued
    /\ UNCHANGED <<operation, dbs, sourceDb, targetDb, targetStats, answers>>
    /\ UNCHANGED <<store, client, method>>

\* const targetDbs = await targetClient.listDatabases() resolves, or rejects
TargetFetched ==
    /\ at = <<"targetFetching">>
    /\ \/ /\ Settle("resolved")
          /\ dbs' \in DbLists
          /\ at' = <<"targetSelect">>
       \/ /\ Settle("rejected")
          /\ End("threw")
          /\ UNCHANGED dbs
    /\ UNCHANGED <<operation, sourceDb, targetDb, targetStats, answers>>
    /\ UNCHANGED <<store, handle, method>>

\* selectDatabase(targetDbs, message, true), then await client.getDbStats(sourceDb)
SelectTargetDb ==
    /\ at = <<"targetSelect">>
    /\ \/ \E d \in DbNames :
             /\ targetDb' = d
             /\ Answer("target", d)
             /\ Issue("client", "getDbStats", sourceDb)
             /\ at' = <<"sourceStats">>
       \/ Cancelled("target") /\ UNCHANGED <<targetDb, issued>>
    /\ UNCHANGED <<operation, dbs, sourceDb, targetStats>>
    /\ UNCHANGED <<store, handle, method>>

\* finally { await targetClient.disconnect() }: await this.client?.close()
Finally ==
    /\ Len(at) = 2 /\ at[1] = "finally"
    /\ pending' = "disconnect"
    /\ at' = <<"closing", at[2]>>
    /\ UNCHANGED <<operation, dbs, sourceDb, targetDb, targetStats, issued, answers>>
    /\ UNCHANGED <<store, client, handles, outcome, method>>

\* close() resolves: this.client = null and the operation ends as it was
\* about to; close() rejects: this.client = null is not reached and the
\* operation throws what close() threw
Closed ==
    /\ Len(at) = 2 /\ at[1] = "closing"
    /\ pending' = "none"
    /\ \/ /\ handles' = [handles EXCEPT ![client] = "closed"]
          /\ client' = Null
          /\ outcome' = "disconnect resolved"
          /\ at' = <<at[2]>>
       \/ /\ outcome' = "disconnect rejected"
          /\ at' = <<"threw">>
          /\ UNCHANGED <<client, handles>>
    /\ UNCHANGED <<operation, dbs, sourceDb, targetDb, targetStats, issued, answers>>
    /\ UNCHANGED <<store, method>>

\* the user is connected to ActiveCluster and picks an operation of the menu
OperationsInit ==
    /\ NoCall
    /\ stored \in {<<Cluster(ActiveCluster, "mongodb://one")>>,
                   <<Cluster(ActiveCluster, "mongodb://one"), Cluster("staging", "mongodb://two")>>}
    /\ storeError = "none"
    /\ operation \in {"clone", "upload", "drop"}
    /\ at = <<"start">>
    /\ dbs = <<>>
    /\ sourceDb = ""
    /\ targetDb = ""
    /\ targetStats = FALSE
    /\ issued = <<>>
    /\ answers = <<>>

OperationsNext ==
    \/ UploadPath
    \/ Fetch
    \/ Fetched
    \/ SelectSource
    \/ SelectCloneTarget
    \/ SelectUploadTarget
    \/ SourceStats
    \/ TargetStats
    \/ Confirm
    \/ Cleared
    \/ Transferred
    \/ AskBackup
    \/ BackupPath
    \/ BackupExported
    \/ ConfirmDrop
    \/ Dropped
    \/ SelectTargetCluster
    \/ NewCluster
    \/ TargetConnected
    \/ TargetFetched
    \/ SelectTargetDb
    \/ Finally
    \/ Closed

Operations == OperationsInit /\ [][OperationsNext]_vars

(* ------------------------- vocabulary of the claims --------------------- *)

\* the methods that write to a live sink with insertMany
InsertOps == {"cloneDb", "cloneDbToClient", "importDb"}

Ceil(a, b) == (a + b - 1) \div b

\* the numbers of the collections whose loop body has run to its end, and of
\* those whose documents have all been moved
Finished == 1..i

Moved == IF pc \in {"indexes", "createIndexes"} THEN 1..(i + 1) ELSE 1..i

\* the numbers of the lines of a record file that hold a document
DocLines(shape) == {k \in 1..shape.n : k \notin shape.blanks /\ k \notin shape.bad}

\* D: the number of documents of a source
DocCount(shape) == shape.n - Cardinality((shape.blanks \cup shape.bad) \cap 1..shape.n)

IsDocLine(line) == line.kind = "ejson"

\* the documents of a source, in the order the source delivers them
SourceDocs(shape) ==
    LET lines == SelectSeq([k \in 1..shape.n |-> LineAt(shape, k)], IsDocLine)
    IN  [k \in 1..Len(lines) |-> lines[k].doc]

RECURSIVE SumSeq(_)
SumSeq(q) == IF q = <<>> THEN 0 ELSE q[1] + SumSeq(Tail(q))

\* how many documents this call has written for collection c
Written(c) == IF op = "exportDb" THEN Len(sink[c]) ELSE SumSeq(insertBatches[c])

\* the places in raw of the descriptors other than the implicit index
NonId(raw) == {j \in 1..Len(raw) : raw[j].name # "_id_"}

\* the k-th smallest number of S
Nth(S, k) == CHOOSE j \in S : Cardinality({x \in S : x <= j}) = k

\* the index step of collection c has written something
Indexed(c) == createdIndexes[c] # <<>> \/ indexFiles[c] # <<>>

\* nothing of collection c has been read or written
Untouched(c) ==
    /\ c \notin DOMAIN src
    /\ c \notin DOMAIN rawIndexes
    /\ reads[c] = 0
    /\ sink[c] = sink0[c]
    /\ insertBatches[c] = <<>>
    /\ createdIndexes[c] = <<>>
    /\ indexFiles[c] = <<>>
    /\ c \notin streamEnded

\* how many createIndexes calls collection c is due, given what the source holds
IndexCallsDue(c) ==
    IF op = "importDb" /\ ~ExistsSync(IndexFile(c)) THEN 0
    ELSE IF c \in DOMAIN rawIndexes /\ NonId(rawIndexes[c]) # {} THEN 1
    ELSE 0

\* every read, write and index step of collection c is over
Complete(c) ==
    /\ c \in DOMAIN src
    /\ reads[c] = src[c].n
    /\ Written(c) = DocCount(src[c])
    /\ IF op = "exportDb"
       THEN c \in streamEnded /\ Len(indexFiles[c]) = 1 /\ createdIndexes[c] = <<>>
       ELSE /\ Len(createdIndexes[c]) = IndexCallsDue(c)
            /\ indexFiles[c] = <<>>
            /\ (op = "importDb" /\ ~ExistsSync(IndexFile(c))) \/ c \in DOMAIN rawIndexes

\* what is kept of collection c outside the call: its sink and the source's cursor
DataOf(c) ==
    <<reads[c], sink[c], insertBatches[c], createdIndexes[c], indexFiles[c],
      c \in streamEnded, c \in DOMAIN src, c \in DOMAIN rawIndexes>>

(* --------------------------------- C1 ----------------------------------- *)

\* C1: in cloneDb, cloneDbToClient and importDb, a collection with D > 0
\* documents, once all of them are moved, has seen ceil(D / 500) insertMany
\* calls: each but the last with exactly 500 documents, the last with
\* D - 500 * (ceil(D / 500) - 1).
C1_FlushSizes ==
    op \in InsertOps =>
        \A k \in Moved :
            LET D == DocCount(src[Col(k)])
                b == insertBatches[Col(k)]
            IN  D > 0 =>
                    /\ Len(b) = Ceil(D, BATCH_SIZE)
                    /\ \A j \in 1..(Len(b) - 1) : b[j] = BATCH_SIZE
                    /\ b[Len(b)] = D - BATCH_SIZE * (Ceil(D, BATCH_SIZE) - 1)

\* a collection of 2 * 500 + 1 documents was moved in flushes of 500, 500, 1
C1_Witness ==
    /\ op \in InsertOps
    /\ \E k \in Finished :
          /\ DocCount(src[Col(k)]) = 2 * BATCH_SIZE + 1
          /\ insertBatches[Col(k)] = <<BATCH_SIZE, BATCH_SIZE, 1>>

(* --------------------------------- C2 ----------------------------------- *)

\* C2: in cloneDb, cloneDbToClient and importDb the batch never holds more
\* than 500 documents; a batch of 500 is only ever waiting for its insertMany
\* (or the call has rejected), and whenever the next document can be read the
\* batch holds fewer than 500.
C2_BatchBounded ==
    op \in InsertOps =>
        /\ Len(batch) <= BATCH_SIZE
        /\ (Len(batch) = BATCH_SIZE => pc \in {"flush", "rejected"})
        /\ (pc = "flush" => Len(batch) = BATCH_SIZE)
        /\ (pc = "read" => Len(batch) < BATCH_SIZE)

\* a full batch has been flushed and emptied, and the source has more documents
C2_Witness ==
    /\ op \in InsertOps
    /\ pc = "read"
    /\ batch = <<>>
    /\ insertBatches[Cur] = <<BATCH_SIZE>>
    /\ reads[Cur] < src[Cur].n

(* --------------------------------- C3 ----------------------------------- *)

\* C3: once a step of cloneDb, cloneDbToClient, exportDb or importDb has
\* failed, the call is rejected and does nothing more: no further progress
\* callback, source read, sink write or index creation.
C3_FailFast ==
    /\ [](failure # NoFailure => pc = "rejected")
    /\ [][failure # NoFailure => UNCHANGED <<pc, locals, source, sinks, calls>>]_vars

\* an insertMany failed after the first batch of a collection was written
C3_Witness ==
    /\ failure = Thrown("insertMany")
    /\ pc = "rejected"
    /\ Len(insertBatches[Cur]) = 1
    /\ reads[Cur] = 2 * BATCH_SIZE

(* --------------------------------- C4 ----------------------------------- *)

\* C4: the step that fails, and everything after it, leaves the sink as it
\* was: no document, record file or index that was written is removed.
C4_NoRollback ==
    [][failure' # NoFailure => UNCHANGED sinks]_vars

\* the call was rejected with a batch and an index set of an earlier
\* collection already in the sink
C4_Witness ==
    /\ pc = "rejected"
    /\ i >= 1
    /\ Len(sink[Col(1)]) >= BATCH_SIZE
    /\ \/ createdIndexes[Col(1)] # <<>>
       \/ indexFiles[Col(1)] # <<>>

(* --------------------------------- C5 ----------------------------------- *)

\* C5: when the index step of a collection has written (createIndexes on the
\* sink, or <collection>.indexes.json), every document of that collection has
\* been read and written (for exportDb, the record stream has ended), and no
\* document of it is written afterwards.
C5_IndexesAfterDocuments ==
    /\ [](\A c \in Names :
            Indexed(c) =>
                /\ c \in DOMAIN src
                /\ reads[c] = src[c].n
                /\ Written(c) = DocCount(src[c])
                /\ (op = "exportDb" => c \in streamEnded))
    /\ [][\A c \in Names :
            Indexed(c) => sink'[c] = sink[c] /\ insertBatches'[c] = insertBatches[c]]_vars

\* both kinds of index step have happened after a final partial batch or an
\* ended stream: here, for a collection of more than two batches
C5_Witness ==
    \E c \in Names :
        /\ Indexed(c)
        /\ Written(c) = 2 * BATCH_SIZE + 1

(* --------------------------------- C6 ----------------------------------- *)

\* C6: every list passed to createIndexes is the source's descriptors other
\* than "_id_", in source order, each with all its fields but v and ns,
\* unchanged.
C6_NormalizedIndexes ==
    op \in InsertOps =>
        \A c \in Names : \A n \in 1..Len(createdIndexes[c]) :
            LET specs == createdIndexes[c][n]
                raw == rawIndexes[c]
                keep == NonId(raw)
            IN  /\ Len(specs) = Cardinality(keep)
                /\ \A k \in 1..Len(specs) :
                      LET d == raw[Nth(keep, k)]
                      IN  /\ specs[k].name # "_id_"
                          /\ DOMAIN specs[k] = (DOMAIN d) \ {"v", "ns"}
                          /\ \A f \in DOMAIN specs[k] : specs[k][f] = d[f]

\* indexes were created from a source list holding "_id_" and a descriptor
\* with v, ns and unique
C6_Witness ==
    /\ op \in InsertOps
    /\ \E c \in Names :
          /\ createdIndexes[c] # <<>>
          /\ c \in DOMAIN rawIndexes
          /\ rawIndexes[c] = <<IdIndex, EmailIndex>>

(* --------------------------------- C7 ----------------------------------- *)

C8_ProgressCallbacks ==
    hasCallback =>
        /\ Len(calls) <= Len(collections)
        /\ i <= Len(calls) /\ Len(calls) <= i + 1
        /\ \A k \in 1..Len(calls) : calls[k] = <<Col(k), k, Len(collections)>>
        /\ \A k \in 1..Len(collections) : ~Untouched(Col(k)) => k <= Len(calls)
        /\ (pc = "done" => Len(calls) = Len(collections))

\* a call with a callback has returned after two collections or more
C8_Witness ==
    /\ hasCallback
    /\ pc = "done"
    /\ Len(calls) >= 2
    /\ reads[Col(2)] >= 1

(* --------------------------------- C9 ----------------------------------- *)

\* C9: collections are processed one at a time in enumeration order: all
\* before the current one are complete (read, written, indexed), all after it
\* are untouched and unreported, and a step changes nothing of any collection
\* but the current one.
C9_OneAtATime ==
    /\ [](\A k \in 1..Len(collections) :
            /\ (k <= i => Complete(Col(k)))
            /\ ((k > i + 1 \/ (k = i + 1 /\ pc = "loop")) =>
                    Untouched(Col(k)) /\ Len(calls) < k))
    /\ [][\A k \in 1..Len(collections) :
            k # i + 1 => DataOf(Col(k))' = DataOf(Col(k))]_vars

\* the second collection is being read after the first was copied and indexed
C9_Witness ==
    /\ Len(collections) >= 2
    /\ i = 1
    /\ pc = "read"
    /\ reads[Cur] >= 1
    /\ Written(Col(1)) >= 1
    /\ Indexed(Col(1))

(* --------------------------------- C10 ---------------------------------- *)

\* C10: when the call has returned, every collection whose sink was empty at
\* the start holds exactly the source's documents (exportDb: one line per
\* document) in the source's order.
C10_OrderPreserved ==
    pc = "done" =>
        \A k \in 1..Len(collections) :
            LET c == Col(k)
                docs == SourceDocs(src[c])
            IN  sink0[c] = <<>> =>
                    sink[c] = IF op = "exportDb"
                              THEN [j \in 1..Len(docs) |-> EJSONStringify(docs[j])]
                              ELSE docs

\* a call has returned after copying more than two batches into an empty sink
C10_Witness ==
    /\ pc = "done"
    /\ sink0 = EmptySink
    /\ \E k \in 1..Len(collections) : Len(sink[Col(k)]) = 2 * BATCH_SIZE + 1

(* --------------------------------- C11 ---------------------------------- *)

RECURSIVE SumWritten(_)
\* the documents this call has written to the first n enumerated collections
SumWritten(n) == IF n = 0 THEN 0 ELSE Written(Col(n)) + SumWritten(n - 1)

\* the methods declared to return counts
CountingOps == {"cloneDbToClient", "exportDb", "importDb"}

\* C11: a cloneDbToClient, exportDb or importDb that returns, returns
\* collections = the number of enumerated collections and documents = the
\* number of documents it wrote to the sink, all collections together;
\* exportDb returns with them path = the directory it was given.
C11_ReturnedCounts ==
    (pc = "done" /\ op \in CountingOps) =>
        /\ result.kind = "value"
        /\ result.collections = Len(collections)
        /\ result.documents = SumWritten(Len(collections))
        /\ DOMAIN result =
              IF op = "exportDb" THEN {"kind", "collections", "documents", "path"}
              ELSE {"kind", "collections", "documents"}
        /\ op = "exportDb" => result.path = outDir

\* two collections were moved, more than a batch of documents between them,
\* and the counts were returned
C11_Witness ==
    /\ pc = "done" /\ op \in CountingOps
    /\ result.collections = 2
    /\ result.documents > BATCH_SIZE
    /\ Written(Col(1)) > 0 /\ Written(Col(2)) > 0

(* --------------------------------- C12 ---------------------------------- *)

Enumerable == IF op = "importDb" THEN SelectSeq(entries, EndsWithJsonl) ELSE collections

\* the source has been enumerated and holds no collection
NothingToMove == pc \in {"loop", "done"} /\ Enumerable = <<>>

\* no callback, no insertMany, no createIndexes, no file written
NothingMoved ==
    /\ calls = <<>>
    /\ sink = sink0
    /\ streamEnded = {}
    /\ \A c \in Names :
          insertBatches[c] = <<>> /\ createdIndexes[c] = <<>> /\ indexFiles[c] = <<>>

Created(c) ==
    UNION {{createdIndexes[c][k][j] : j \in 1..Len(createdIndexes[c][k])} :
             k \in 1..Len(createdIndexes[c])}

\* C14: after exportDb of a database into a directory and importDb of that
\* directory into an empty database, every collection of the source has as
\* many documents in the target as in the source, and the descriptors
\* createIndexes was called with on it are those of the source's indexes
\* other than "_id_", no more and no fewer.
C14_RoundTrip ==
    (disk.known /\ op = "importDb" /\ pc = "done") =>
        \A c \in DOMAIN disk.origin :
            LET from == disk.origin[c]
            IN  /\ Len(sink[c]) = from.n
                /\ Created(c) = {Rest(from.indexes[j]) : j \in NonId(from.indexes)}

\* a database of more than 2 * 500 documents in two collections, one of them
\* with an index of its own, made the round trip; so did an empty collection
C14_Witness ==
    /\ disk.known /\ op = "importDb" /\ pc = "done"
    /\ Cardinality(DOMAIN disk.origin) = 2
    /\ SumN(disk.origin, DOMAIN disk.origin) > 2 * BATCH_SIZE
    /\ \E c \in DOMAIN disk.origin : disk.origin[c].n = 0
    /\ \E c \in DOMAIN disk.origin : Created(c) # {}

(* --------------------------------- C15 ---------------------------------- *)

\* C15: importDb of a directory that does not exist is rejected with the
\* directory-not-found error, connected or not, and nothing else has
\* happened: no callback, nothing listed, opened or read, no insertMany, no
\* createIndexes.
C15_MissingDirectory ==
    (op = "importDb" /\ ~dirExists /\ pc # "start") =>
        /\ pc = "rejected"
        /\ failure = Thrown(DirectoryNotFound)
        /\ entries = <<>> /\ collections = <<>> /\ src = <<>>
        /\ \A c \in Names : reads[c] = 0
        /\ NothingMoved

\* importDb was called on a missing directory, by a Connection with a handle
C15_Witness ==
    /\ op = "importDb" /\ ~dirExists
    /\ client # Null
    /\ pc = "rejected"

(* --------------------------------- C20 ---------------------------------- *)

\* C20: createIndexes is never given an empty list; a collection whose source
\* has no index but "_id_", and in importDb one without a sidecar file, gets
\* through its index step, to the next collection, without a createIndexes call.
C20_NoEmptyCreateIndexes ==
    /\ \A c \in Names :
          \A k \in 1..Len(createdIndexes[c]) : createdIndexes[c][k] # <<>>
    /\ op \in InsertOps =>
          \A k \in Finished :
              (\/ Col(k) \notin DOMAIN rawIndexes
               \/ \A j \in 1..Len(rawIndexes[Col(k)]) : rawIndexes[Col(k)][j].name = "_id_")
              => createdIndexes[Col(k)] = <<>>

\* importDb went past a collection without a sidecar, and a clone past one
\* with only the "_id_" index
C20_Witness ==
    /\ op \in InsertOps /\ pc = "done"
    /\ \E k \in Finished :
          /\ createdIndexes[Col(k)] = <<>>
          /\ Written(Col(k)) > 0
          /\ IF op = "importDb"
             THEN ~ExistsSync(IndexFile(Col(k)))
             ELSE rawIndexes[Col(k)] = <<IdIndex>>

(* --------------------------------- C16 ---------------------------------- *)

\* the first step of the data operation is over
Answered == pc \notin {"start", "list"}

\* C16: a data operation called on a Connection without a handle (never
\* connected, or disconnected since) is rejected with the NotConnected error,
\* whatever its arguments, and has touched neither the cluster nor a sink:
\* nothing enumerated, nothing read, no directory made, nothing written.
C16_DisconnectedRejects ==
    (client = Null /\ Answered) =>
        /\ pc = "rejected"
        /\ failure = Thrown(NotConnected)
        /\ collections = <<>> /\ entries = <<>> /\ src = <<>>
        /\ ~outDirMade
        /\ sink = sink0
        /\ \A c \in Names : insertBatches[c] = <<>> /\ createdIndexes[c] = <<>>

(* --------------------------------- C17 ---------------------------------- *)

\* C17: when connect(uri) has rejected, the Connection holds no handle, and
\* the data operation called next is rejected with NotConnected.
C17_FailedConnectDisconnected ==
    (pending = "none" /\ outcome = "connect rejected") =>
        /\ client = Null
        /\ Answered => (pc = "rejected" /\ failure = Thrown(NotConnected))

(* --------------------------------- C18 ---------------------------------- *)

\* C18: a disconnect() that has returned has resolved and left the Connection
\* without a handle, whether or not it had one and whether or not close()
\* succeeded.
C18_DisconnectAlwaysResolves ==
    (pending = "none" /\ outcome \in {"disconnect resolved", "disconnect rejected"}) =>
        /\ outcome = "disconnect resolved"
        /\ client = Null

(* --------------------------------- C19 ---------------------------------- *)

\* the handles that are connected and not closed
OpenHandles == {h \in 1..Len(handles) : handles[h] = "open"}

\* C19: at most one handle the Connection opened is open, and it is the one
\* this.client refers to.
C19_AtMostOneOpenHandle ==
    /\ Cardinality(OpenHandles) <= 1
    /\ \A h \in OpenHandles : h = client

(* --------------------------------- C21 ---------------------------------- *)

\* C21: when exportDb has returned, every enumerated collection has its
\* record file, written and closed, and its sidecar, written once; the record
\* file of a collection without documents is empty, whatever the file held
\* before, and the sidecar of a collection whose only index is "_id_" holds
\* the empty JSON array.
C21_ExportLeavesBothFiles ==
    (op = "exportDb" /\ pc = "done") =>
        \A k \in 1..Len(collections) :
            LET c == Col(k)
            IN  /\ c \in streamEnded
                /\ Len(indexFiles[c]) = 1
                /\ src[c].n = 0 => sink[c] = <<>>
                /\ NonId(src[c].indexes) = {} => indexFiles[c][1] = JSONStringify(<<>>)

\* exportDb has returned after exporting a collection without documents and
\* with the implicit index only, over a record file that held a line
C21_Witness ==
    /\ op = "exportDb" /\ pc = "done"
    /\ sink0 = LoadedSink("exportDb")
    /\ \E k \in 1..Len(collections) :
          /\ src[Col(k)].n = 0
          /\ src[Col(k)].indexes = <<IdIndex>>

(* --------------------------------- C22 ---------------------------------- *)

\* the steps of a transfer that read, insert or create indexes
TransferSteps == {"next", "readline", "EJSON.parse", "insertMany", "indexes", "createIndexes"}

\* C22: a transfer that rejects because a read, insert or index-creation
\* step failed rejects with a TransferFailure that holds the underlying
\* cause, the name of the collection and the step that failed.
C22_FailuresWrapped ==
    (op \in Ops /\ pc = "rejected" /\ failure.error \in TransferSteps) =>
        /\ DOMAIN failure = {"name", "cause", "collection", "step"}
        /\ failure.name = "TransferFailure"
        /\ failure.cause \in TransferSteps
        /\ failure.collection = Cur

(* --------------------------------- C23 ---------------------------------- *)

\* C23: during exportDb the documents read from the cursor whose lines are
\* not in the record file yet are never more than 500.
C23_ReadAheadBounded ==
    op = "exportDb" => Len(buffered) <= BATCH_SIZE

(* --------------------------------- C24 ---------------------------------- *)

\* the name of the k-th collection call f enumerated
FrameCol(f, k) ==
    IF f.op = "importDb" THEN StripJsonl(f.collections[k]) ELSE f.collections[k]

\* the batches D documents are inserted in
ExpectedBatches(D) ==
    [j \in 1..Ceil(D, BATCH_SIZE) |->
        IF j < Ceil(D, BATCH_SIZE) THEN BATCH_SIZE
        ELSE D - BATCH_SIZE * (Ceil(D, BATCH_SIZE) - 1)]

RECURSIVE SumDocs(_, _)
\* the documents of the first n collections call f enumerated
SumDocs(f, n) ==
    IF n = 0 THEN 0 ELSE DocCount(f.src[FrameCol(f, n)]) + SumDocs(f, n - 1)

\* what a call delivers when it runs alone into an empty sink and with a
\* callback: per collection the documents of the source in order, in batches
\* of 500 and a rest, one createIndexes (or sidecar) with the indexes other
\* than "_id_", a callback per collection, and the counts of all of it
AsAlone(f) ==
    f.pc = "done" =>
        /\ \A k \in 1..Len(f.collections) :
              LET c == FrameCol(f, k)
                  docs == SourceDocs(f.src[c])
                  raw == IF c \in DOMAIN f.rawIndexes THEN f.rawIndexes[c] ELSE <<>>
              IN  /\ f.reads[c] = f.src[c].n
                  /\ f.sink[c] = IF f.op = "exportDb"
                                 THEN [j \in 1..Len(docs) |-> EJSONStringify(docs[j])]
                                 ELSE docs
                  /\ f.op \in InsertOps =>
                        /\ f.insertBatches[c] = ExpectedBatches(Len(docs))
                        /\ Len(f.createdIndexes[c]) = (IF NonId(raw) = {} THEN 0 ELSE 1)
                        /\ NonId(raw) # {} =>
                              {f.createdIndexes[c][1][j].name :
                                  j \in 1..Len(f.createdIndexes[c][1])}
                                = {raw[j].name : j \in NonId(raw)}
                  /\ f.op = "exportDb" =>
                        /\ Len(f.indexFiles[c]) = 1
                        /\ Len(f.indexFiles[c][1].value) = Cardinality(NonId(raw))
        /\ f.calls = [k \in 1..Len(f.collections) |->
                        <<FrameCol(f, k), k, Len(f.collections)>>]
        /\ f.op \in CountingOps =>
              /\ f.result.collections = Len(f.collections)
              /\ f.result.documents = SumDocs(f, Len(f.collections))

\* C24: of two calls on two Connections and two sinks that run interleaved
\* at their awaits, each that has returned has delivered to its sink the
\* documents, batches and indexes, and returned the counts, of a run alone.
C24_InterleavedAsAlone ==
    AsAlone(Frame) /\ AsAlone(other)

\* the first call has returned after inserting a full batch, while the second
\* call waits in the middle of its file with a document in its batch
C24_Witness ==
    /\ running = 1 /\ pc = "done"
    /\ op = "cloneDbToClient"
    /\ \E k \in 1..Len(collections) : insertBatches[Col(k)] = <<BATCH_SIZE>>
    /\ other.pc = "read"
    /\ Len(other.batch) = 1

(* --------------------------------- C25 ---------------------------------- *)

\* the call has returned or rejected
Settled == pc \in {"done", "rejected"}

\* C25: when every awaited operation eventually returns or fails, a call of
\* cloneDb, cloneDbToClient, exportDb or importDb eventually returns or
\* rejects.
C25_Terminates == <>Settled

\* a call has returned after reading every collection of its source to the end
C25_Witness ==
    /\ pc = "done"
    /\ Len(collections) = MaxCols
    /\ \A k \in 1..Len(collections) : reads[Col(k)] = src[Col(k)].n
    /\ \E k \in 1..Len(collections) : reads[Col(k)] > 0

(* --------------------------------- C26 ---------------------------------- *)

RECURSIVE SumOver(_, _)
\* the sum of f over the set S of places
SumOver(f, S) ==
    IF S = {} THEN 0
    ELSE LET k == CHOOSE x \in S : TRUE IN f[k] + SumOver(f, S \ {k})

\* C26: a getDbStats that has returned, returned every collection of the
\* database with the count the server answered for it, in the order they
\* were listed, and totalDocuments = the sum of those counts.
C26_StatsSumCounts ==
    (op = "getDbStats" /\ pc = "done") =>
        LET stats == result.value
        IN  /\ Len(stats.collections) = Len(collections)
            /\ \A k \in 1..Len(collections) :
                  /\ stats.collections[k].name = collections[k]
                  /\ stats.collections[k].count = counts[k]
            /\ stats.totalDocuments = SumOver(counts, 1..Len(collections))

\* getDbStats has returned for a database of two collections with 10 and 5
\* documents: a list of two and totalDocuments = 15
C26_Witness ==
    /\ op = "getDbStats" /\ pc = "done"
    /\ counts = <<10, 5>>
    /\ Len(result.value.collections) = 2
    /\ result.value.totalDocuments = 15

(* --------------------------------- C27 ---------------------------------- *)

\* C27 as stated: at most one countDocuments() is under way at any moment.
C27_OneCountInFlight ==
    Cardinality(inFlight) <= 1

\* C27, amended: the counts are started together.  While listCollections or
\* getDbStats gathers the counts, a countDocuments() has been started for
\* every listed collection: each is under way or answered, none waits for
\* another to return.
C27_CountsStartedTogether ==
    (op \in CountingCalls /\ pc = "count") =>
        inFlight \cup DOMAIN counts = 1..Len(collections)

\* the counts of all the collections are under way at once, none answered
C27_Witness ==
    /\ op \in CountingCalls /\ pc = "count"
    /\ Len(collections) = MaxCols
    /\ inFlight = 1..MaxCols
    /\ counts = <<>>

(* --------------------------------- C28 ---------------------------------- *)

\* the database is none of admin, local and config
Unreserved(d) == d.name \notin {"admin", "local", "config"}

\* C28: a listDatabases that has returned, returned no database named admin,
\* local or config, and every other database the server reported, once each
\* and in the server's order, with its name and size on disk.
C28_ListDatabases ==
    (op = "listDatabases" /\ pc = "done") =>
        LET listed == result.value
            others == SelectSeq(served, Unreserved)
        IN  /\ \A k \in 1..Len(listed) : listed[k].name \notin {"admin", "local", "config"}
            /\ Len(listed) = Len(others)
            /\ \A k \in 1..Len(others) :
                  listed[k] = [name |-> others[k].name, sizeOnDisk |-> others[k].sizeOnDisk]

\* listDatabases has returned two databases of the five the server reported,
\* three of them reserved
C28_Witness ==
    /\ op = "listDatabases" /\ pc = "done"
    /\ Len(served) = 5
    /\ Len(result.value) = 2
    /\ result.value[1] = [name |-> "shop", sizeOnDisk |-> 0]

(* --------------------------------- C29 ---------------------------------- *)

\* the name of a directory entry ends in .jsonl
IsRecordFile(f) == f[Len(f)] = "jsonl"

\* the entries of the directory that are record files, in directory order
RecordEntries == SelectSeq(entries, IsRecordFile)

\* the file-name stem of a record file
Stem(f) == SubSeq(f, 1, Len(f) - 1)

\* the stems of the record files of the directory
Stems == {Stem(RecordEntries[k]) : k \in 1..Len(RecordEntries)}

\* C29: once importDb has listed the directory, its collections are exactly
\* the entries ending in .jsonl, each named by its stem: the callback is given
\* those names and their number, only they are read and inserted into, and
\* their number is the collection count returned.
C29_OnlyRecordFilesAreCollections ==
    op = "importDb" =>
        /\ collections = RecordEntries
        /\ \A k \in 1..Len(collections) : Col(k) = Stem(RecordEntries[k])
        /\ \A k \in 1..Len(calls) :
              /\ calls[k][1] = Stem(RecordEntries[k])
              /\ calls[k][3] = Len(RecordEntries)
        /\ DOMAIN src \subseteq Stems
        /\ \A c \in Names : insertBatches[c] # <<>> => c \in Stems
        /\ pc = "done" => result.collections = Len(RecordEntries)

\* importDb has returned from a directory that holds sidecars and a stray
\* file next to its record files
C29_Witness ==
    /\ op = "importDb" /\ pc = "done"
    /\ Len(entries) = 2 * MaxCols + 1
    /\ Len(collections) = MaxCols
    /\ Len(calls) = MaxCols

(* --------------------------------- C30 ---------------------------------- *)

\* how many of the first n lines of a record file hold a document
DocLinesUpTo(shape, n) ==
    n - Cardinality({k \in shape.blanks \cup shape.bad : k <= n})

\* C30: importDb passes over empty and whitespace-only lines: what it has
\* batched and inserted of the file it is reading is exactly the document
\* lines read so far, and a returned import has counted the document lines
\* only.  A line that is not EJSON ends the call: nothing is read past it, it
\* is the last line read, the call has rejected with the parse error, and no
\* later file has been opened.  The call rejects with a parse error on such
\* lines only.
C30_BlankSkippedMalformedFails ==
    op = "importDb" =>
        /\ pc \in {"read", "flush", "finalFlush"} =>
              Len(batch) + SumSeq(insertBatches[Cur]) =
                    DocLinesUpTo(src[Cur], reads[Cur])
        /\ pc = "done" =>
              \A k \in 1..Len(collections) :
                  SumSeq(insertBatches[Col(k)]) = DocCount(src[Col(k)])
        /\ \A k \in 1..Len(collections) :
              LET c == Col(k)
              IN  c \in DOMAIN src =>
                    \A b \in src[c].bad :
                        /\ reads[c] <= b
                        /\ reads[c] = b =>
                              /\ pc = "rejected"
                              /\ failure = Thrown("EJSON.parse")
                              /\ k = i + 1
                              /\ \A later \in (k + 1)..Len(collections) :
                                    Untouched(Col(later))
        /\ failure = Thrown("EJSON.parse") => reads[Cur] \in src[Cur].bad

\* importDb has read a whole file with an empty and a whitespace-only line,
\* and rejected at a line of the next file that is not EJSON
C30_Witness ==
    /\ op = "importDb" /\ pc = "rejected"
    /\ failure = Thrown("EJSON.parse")
    /\ i = 1
    /\ src[Col(1)].blanks = {1, 3}
    /\ LineAt(src[Col(1)], 3) = WhitespaceLine
    /\ reads[Col(1)] = 3
    /\ reads[Col(2)] \in src[Col(2)].bad

(* --------------------------------- C31 ---------------------------------- *)

\* C31: whatever addCluster, removeCluster and renameCluster calls were made
\* on a store that started empty, no two stored clusters have the same name
C31_NamesDistinct ==
    \A j, k \in 1..Len(stored) : j # k => stored[j].name # stored[k].name

(* --------------------------------- C32 ---------------------------------- *)

\* C32: in cloneDb, cloneDbToClient and importDb no insertMany gets an empty
\* batch: a batch waiting for its insertMany holds at least one document, the
\* one after the loop fewer than 500; a collection of no documents sees no
\* insertMany, and one of m * 500 documents sees exactly m
C32_NoEmptyInsert ==
    op \in InsertOps =>
        /\ (pc \in {"flush", "finalFlush"} => Len(batch) >= 1)
        /\ (pc = "finalFlush" => Len(batch) < BATCH_SIZE)
        /\ \A c \in Names : \A j \in 1..Len(insertBatches[c]) : insertBatches[c][j] >= 1
        /\ \A k \in Moved :
              LET D == DocCount(src[Col(k)])
                  b == insertBatches[Col(k)]
              IN  /\ (D = 0 => b = <<>>)
                  /\ (D % BATCH_SIZE = 0 => Len(b) = D \div BATCH_SIZE)

\* a collection of no documents and one of exactly 500 have been moved: the
\* first with no insertMany, the second with one
C32_Witness ==
    /\ op \in InsertOps
    /\ \E j, k \in Finished :
          /\ src[Col(j)].n = 0
          /\ insertBatches[Col(j)] = <<>>
          /\ DocCount(src[Col(k)]) = BATCH_SIZE
          /\ insertBatches[Col(k)] = <<BATCH_SIZE>>

(* --------------------------------- C33 ---------------------------------- *)

\* the call was rejected inside the loop body of a collection, and the sink
\* was empty when it was made
FailedInCollection ==
    /\ op \in InsertOps
    /\ sink0 = EmptySink
    /\ pc = "rejected"
    /\ i < Len(collections)
    /\ Cur \in DOMAIN src

\* the steps of a loop body that come after the last insertMany
IndexSteps == {"indexes", "createIndexes", "JSON.parse"}

\* the collections after the failing one hold nothing
LaterEmpty == \A k \in (i + 2)..Len(collections) : sink[Col(k)] = <<>>

\* the first w documents of a source: where no line is blank or malformed
\* the k-th document is the k-th item
FirstDocs(shape, w) ==
    IF "lines" \notin DOMAIN shape /\ shape.blanks = {} /\ shape.bad = {} /\ w <= shape.n
    THEN [k \in 1..w |-> DocAt(shape, k)]
    ELSE SubSeq(SourceDocs(shape), 1, w)

\* C33, as stated: when cloneDb, cloneDbToClient or importDb fails inside a
\* collection, that collection's sink holds exactly the first k * 500
\* documents of the source, for some k, and the later collections hold nothing
C33_WholeBatchesOnly ==
    FailedInCollection =>
        /\ Len(sink[Cur]) % BATCH_SIZE = 0
        /\ sink[Cur] = FirstDocs(src[Cur], Len(sink[Cur]))
        /\ LaterEmpty

\* C33, amended: the failing collection's sink holds a prefix of the source's
\* documents, each once: the first k * 500 when a read, a parse or an
\* insertMany failed (what the batch held is not written), and all of them
\* when the index step failed; the later collections hold nothing
C33_PrefixOnFailure ==
    FailedInCollection =>
        LET w == Len(sink[Cur])
        IN  /\ sink[Cur] = FirstDocs(src[Cur], w)
            /\ IF failure.error \in IndexSteps
               THEN w = DocCount(src[Cur])
               ELSE w = BATCH_SIZE * Len(insertBatches[Cur])
            /\ LaterEmpty

\* the second insertMany of a collection failed: the collection holds its
\* first 500 documents and the 500 of the batch are not written
C33_Witness ==
    /\ FailedInCollection
    /\ failure = Thrown("insertMany")
    /\ insertBatches[Cur] = <<BATCH_SIZE>>
    /\ Len(sink[Cur]) = BATCH_SIZE
    /\ Len(batch) = BATCH_SIZE

(* --------------------------------- C34 ---------------------------------- *)

\* C34: exportDb called on a Connection without a handle is rejected with the
\* NotConnected error and has left the file system alone: the output
\* directory is not made, no record file and no sidecar is written
C34_DisconnectedExportLeavesDisk ==
    (op = "exportDb" /\ client = Null /\ Answered) =>
        /\ pc = "rejected"
        /\ failure = Thrown(NotConnected)
        /\ ~outDirMade
        /\ sink = sink0
        /\ \A c \in Names : indexFiles[c] = <<>> /\ c \notin streamEnded

(* --------------------------------- C35 ---------------------------------- *)

\* the places in issued of the calls of method m
CallsOf(m) == {j \in 1..Len(issued) : issued[j].method = m}

\* the user gave answer a to prompt
Said(prompt, a) == \E k \in 1..Len(answers) : answers[k] = <<prompt, a>>

\* the operation has returned or thrown
Ended == at \in {<<"returned">>, <<"threw">>}

\* C35: cloneOperation never calls dropDb, on the cluster the source is on,
\* for the database chosen as the source, whatever target was picked or typed
C35_SourceNeverDropped ==
    operation = "clone" =>
        \A j \in CallsOf("dropDb") :
            issued[j].client = "client" => issued[j].db # sourceDb

(* --------------------------------- C36 ---------------------------------- *)

ExportRejected == \E m \in CallsOf("exportDb") : issued[m].state = "rejected"

PromptCancelled == \E k \in 1..Len(answers) : answers[k][2] = "cancel"

\* C36: in dropOperation with a backup asked for, every dropDb comes after an
\* exportDb of the same database that resolved; and when the export rejected
\* or a prompt was cancelled, no dropDb is ever called
C36_DropOnlyAfterBackup ==
    operation = "drop" =>
        /\ Said("backup", "yes") =>
              \A j \in CallsOf("dropDb") :
                  \E m \in 1..(j - 1) :
                      /\ issued[m].method = "exportDb"
                      /\ issued[m].db = issued[j].db
                      /\ issued[m].state = "resolved"
        /\ (ExportRejected \/ PromptCancelled) => CallsOf("dropDb") = {}

\* a backup was asked for and saved, the drop was confirmed and has resolved
C36_Witness ==
    /\ operation = "drop"
    /\ Said("backup", "yes")
    /\ at = <<"returned">>
    /\ \E j \in CallsOf("dropDb") : issued[j].state = "resolved"

(* --------------------------------- C37 ---------------------------------- *)

Transfers == {"cloneDb", "cloneDbToClient", "importDb"}

\* the calls that change a database
Mutating == Transfers \cup {"dropDb"}

\* C37: in the three operations a dropDb or a transfer is only ever issued
\* after the user answered yes to the final confirmation; once that was
\* declined or cancelled none is issued; and a transfer is only issued when
\* every dropDb before it has resolved
C37_NothingBeforeConfirmation ==
    operation \in {"clone", "upload", "drop"} =>
        /\ (\E j \in 1..Len(issued) : issued[j].method \in Mutating) => Said("confirm", "yes")
        /\ (Said("confirm", "no") \/ Said("confirm", "cancel")) =>
              \A j \in 1..Len(issued) : issued[j].method \notin Mutating
        /\ \A j \in 1..Len(issued) :
              issued[j].method \in Transfers =>
                  \A m \in CallsOf("dropDb") : m < j => issued[m].state = "resolved"

\* the target existed: it was cleared, and then the transfer was started
C37_Witness ==
    /\ Said("confirm", "yes")
    /\ targetStats
    /\ \E j \in 2..Len(issued) :
          /\ issued[j].method \in Transfers
          /\ issued[j - 1].method = "dropDb"
          /\ issued[j - 1].state = "resolved"

(* --------------------------------- C38 ---------------------------------- *)

\* C38: when a cloneOperation that made a targetClient has returned or
\* thrown, the targetClient holds no handle and none it made is open
C38_TargetClientReleased ==
    (operation = "clone" /\ Ended /\ handles # <<>>) =>
        /\ client = Null
        /\ OpenHandles = {}

====
